---------------------------- MODULE Spec2Model ----------------------------
(***************************************************************************)
(* A model of the Raydium V4 trading client (src/main.go and the older     *)
(* variants kept beside it in src/main_working.go and                      *)
(* src/raydium_swap.go).                                                   *)
(*                                                                         *)
(* The program is sequential: one invocation computes one quote and        *)
(* optionally executes one swap.  The model is split in groups of          *)
(* variables, one per part of the program, and one specification per       *)
(* group:                                                                  *)
(*                                                                         *)
(*   SpecSwapIx    createSwapInstruction: payload bytes and account list   *)
(*   SpecParse     parsePoolAccount, fetchVaultBalances and the reserves   *)
(*                 that reach calculateSwapAmount                          *)
(*   SpecQuote     calculateSwapAmount                                     *)
(*   SpecSlippage  getSlippageFromUser / parseFloat                        *)
(*   SpecSubmit    executeSwap from the signed transaction on: the two     *)
(*                 submissions and the confirmation poll                   *)
(*                                                                         *)
(* A specification leaves the variables of the other groups at their idle  *)
(* value.                                                                  *)
(*                                                                         *)
(* Representation.                                                         *)
(*  - A public key is a sequence of 32 bytes.  A program-derived address   *)
(*    is a hash the model does not compute: it is the tuple                *)
(*    <<"pda", seeds, program>>, different from every 32-byte key and      *)
(*    from every other derivation.                                         *)
(*  - A uint64 that is serialised is a tuple of four 16-bit limbs, least   *)
(*    significant first, so that all 64 bits exist in the model although   *)
(*    TLC's integers have 32.                                              *)
(*  - Whether a candidate address is off the curve is decided by a hash;   *)
(*    the model draws the set of nonces that are off-curve from            *)
(*    OffCurveChoices.                                                     *)
(***************************************************************************)
EXTENDS Integers, Sequences, FiniteSets, TLC

VARIABLES
    \* ---- createSwapInstruction (SpecSwapIx)
    swapArgs,      \* the arguments of the call
    offCurve,      \* nonces n for which the candidate address of the derivation made
                   \* (seeds ++ [n], program) is off-curve
    swapIx,        \* the returned (instruction, error) pair, NoResult before the call
    \* ---- parsePoolAccount .. calculateSwapAmount (SpecParse)
    variant,       \* which file's parsePoolAccount / calculateQuoteOnChain runs
    acctData,      \* the raw bytes of the pool account
    side,          \* "buy" or "sell"
    parsePc,       \* position in calculateQuoteOnChain / findPoolsOnChain
    parsed,        \* the (pool, error) pair returned by parsePoolAccount; the
                   \* pool is then updated in place by the later steps
    fetched,       \* what GetTokenAccountBalance answered for the two vaults
    reservesUsed,  \* the reserves read by calculateSwapAmount's caller or by the
                   \* pool selection of findPoolsOnChain
    \* ---- calculateSwapAmount (SpecQuote)
    quoteArgs,     \* reserveOut, reserveIn and two amounts a1, a2
    quotePc,
    quoteOut,      \* the two results
    \* ---- getSlippageFromUser (SpecSlippage)
    stdin,         \* what standard input holds, and which program reads it
    input,         \* the local variable input
    slipPc,
    slipRet,       \* the returned (slippage, error) pair
    \* ---- executeSwap, submission and confirmation (SpecSubmit)
    sendPc,
    sends,         \* the submissions made so far, in order
    sendErr,       \* the error of the first submission
    i,             \* the loop variable of the confirmation loop
    sleeps,        \* one-second waits made
    polls,         \* status queries made
    lastStatus,    \* outcome of the latest status query
    finalAt,       \* number of the first query that returned confirmed/finalized, 0 if none
    execRet,       \* the returned (signature, error) pair
    \* ---- executeSwap, the instruction list (SpecBuild)
    buildArgs,     \* the decoded pool, the side, the wallet and the raw amounts
    buildPc,
    instructions,  \* the local variable instructions
    ataQueries,    \* for each getOrCreateATA call: the mint, the ledger, the answer
    buildRet,      \* the transaction built, or the error returned
    \* ---- main (SpecMain)
    flags,         \* the command line: poolAddr, tokenAddr, amount, side, execute
    mainPc,
    poolAddress,   \* the local variable poolAddress
    mainPool,      \* what is known of the pool decoded by main
    minOut,        \* what calculateMinAmountOut was called with
    events,        \* what the run has done so far, in order
    exitStatus,    \* how the process ended
    \* ---- the two address derivations (SpecDerive)
    derivePool,    \* the pool's Market and MarketProgram
    signerRet,     \* the market vault signer of createSwapInstruction
    authorityRet,  \* the authority of parsePoolAccount
    \* ---- generateReport (SpecReport)
    reportArgs,    \* side, expected amounts, and what GetTransaction will answer
    reportPc,
    swapResult,    \* what parseSwapResult returned
    report,        \* the returned (report, error) pair
    \* ---- findPoolsOnChain (SpecDiscover)
    discoverArgs,  \* the token and what the scan will answer
    discoverPc,
    discoverRet,   \* the returned (pool, error) pair
    discoverUse,   \* what main makes of the returned pair
    \* ---- calculateQuoteOnChain after its fetches (SpecRoute)
    routeArgs,     \* the decoded pool, the side, the amount and the build
    routePc,
    routeOut,      \* what each run computed, in order
    \* ---- calculateMinAmountOut (SpecMinOut)
    minArgs,  \* the expected output, the decimal count, two slippages and the build
    minPc,
    minRet, \* what each call returned, in order
    \* ---- fetchMarketData as executeSwap calls it
    mktArgs,  \* the pool parsed and the answer of GetAccountInfo for its market
    mktPc,  \* "fetch", "handle" or "proceed"
    mktPool,  \* the pool with its market fields
    mktErr, \* the error fetchMarketData returned
    \* ---- the quote and the swap built for the same pool, side and amount
    agreeArgs,  \* the decoded pool, the side, the amount and the function that builds the swap
    agreePc,  \* "quote", "min-out", "build" or "done"
    agreeQuote,  \* what calculateQuoteOnChain computed
    agreeMinOut,  \* the output decimals main used for minAmountOut
    agreeSwap  \* the mints and the raw amount of the swap built

swapVars   == <<swapArgs, offCurve, swapIx>>
parseVars  == <<variant, acctData, side, parsePc, parsed, fetched, reservesUsed>>
quoteVars  == <<quoteArgs, quotePc, quoteOut>>
slipVars   == <<stdin, input, slipPc, slipRet>>
submitVars == <<sendPc, sends, sendErr, i, sleeps, polls, lastStatus, finalAt, execRet>>
buildVars  == <<buildArgs, buildPc, instructions, ataQueries, buildRet>>
\* The groups beyond the first five.
mainVars   == <<flags, mainPc, poolAddress, mainPool, minOut, events, exitStatus>>
deriveVars == <<derivePool, signerRet, authorityRet>>
reportVars == <<reportArgs, reportPc, swapResult, report>>
discoverVars == <<discoverArgs, discoverPc, discoverRet, discoverUse>>
routeVars  == <<routeArgs, routePc, routeOut>>
minOutVars == <<minArgs, minPc, minRet>>
marketVars == <<mktArgs, mktPc, mktPool, mktErr>>
agreeVars == <<agreeArgs, agreePc, agreeQuote, agreeMinOut, agreeSwap>>
restVars   == <<buildVars, mainVars, deriveVars, reportVars, discoverVars, routeVars, minOutVars, marketVars, agreeVars>>
\* The groups beyond the first five that a specification leaves alone.
exceptBuild  == <<mainVars, deriveVars, reportVars, discoverVars, routeVars, minOutVars, marketVars, agreeVars>>
exceptMain   == <<buildVars, deriveVars, reportVars, discoverVars, routeVars, minOutVars, marketVars, agreeVars>>
exceptDerive == <<buildVars, mainVars, reportVars, discoverVars, routeVars, minOutVars, marketVars, agreeVars>>
exceptReport == <<buildVars, mainVars, deriveVars, discoverVars, routeVars, minOutVars, marketVars, agreeVars>>
exceptDiscover == <<buildVars, mainVars, deriveVars, reportVars, routeVars, minOutVars, marketVars, agreeVars>>
exceptRoute  == <<buildVars, mainVars, deriveVars, reportVars, discoverVars, minOutVars, marketVars, agreeVars>>
exceptMinOut == <<buildVars, mainVars, deriveVars, reportVars, discoverVars, routeVars, marketVars, agreeVars>>
exceptMarket == <<buildVars, mainVars, deriveVars, reportVars, discoverVars, routeVars, minOutVars, agreeVars>>
exceptAgree == <<buildVars, mainVars, deriveVars, reportVars, discoverVars, routeVars, minOutVars, marketVars>>
vars       == <<swapVars, parseVars, quoteVars, slipVars, submitVars, restVars>>

\* The value of a result variable before the call that sets it.
NoResult == [status |-> "none"]

(***************************************************************************)
(* Idle values: a specification keeps the groups it does not run at these  *)
(***************************************************************************)
SwapIdle ==
    /\ swapArgs = NoResult
    /\ offCurve = {}
    /\ swapIx = NoResult

ParseIdle ==
    /\ variant = "none"
    /\ acctData = <<>>
    /\ side = "none"
    /\ parsePc = "idle"
    /\ parsed = NoResult
    /\ fetched = NoResult
    /\ reservesUsed = NoResult

QuoteIdle ==
    /\ quoteArgs = NoResult
    /\ quotePc = "idle"
    /\ quoteOut = <<>>

SlipIdle ==
    /\ stdin = NoResult
    /\ input = <<>>
    /\ slipPc = "idle"
    /\ slipRet = NoResult

SubmitIdle ==
    /\ sendPc = "idle"
    /\ sends = <<>>
    /\ sendErr = <<>>
    /\ i = 0
    /\ sleeps = 0
    /\ polls = 0
    /\ lastStatus = NoResult
    /\ finalAt = 0
    /\ execRet = NoResult

BuildIdle ==
    /\ buildArgs = NoResult
    /\ buildPc = "idle"
    /\ instructions = <<>>
    /\ ataQueries = <<>>
    /\ buildRet = NoResult

MainIdle ==
    /\ flags = NoResult
    /\ mainPc = "idle"
    /\ poolAddress = ""
    /\ mainPool = NoResult
    /\ minOut = NoResult
    /\ events = <<>>
    /\ exitStatus = "running"

DeriveIdle ==
    /\ derivePool = NoResult
    /\ signerRet = NoResult
    /\ authorityRet = NoResult

ReportIdle ==
    /\ reportArgs = NoResult
    /\ reportPc = "idle"
    /\ swapResult = NoResult
    /\ report = NoResult

DiscoverIdle ==
    /\ discoverArgs = NoResult
    /\ discoverPc = "idle"
    /\ discoverRet = NoResult
    /\ discoverUse = NoResult

RouteIdle ==
    /\ routeArgs = NoResult
    /\ routePc = "idle"
    /\ routeOut = <<>>

MinOutIdle ==
    /\ minArgs = NoResult
    /\ minPc = "idle"
    /\ minRet = <<>>

MarketIdle ==
    /\ mktArgs = NoResult
    /\ mktPc = "idle"
    /\ mktPool = NoResult
    /\ mktErr = <<>>

AgreeIdle ==
    /\ agreeArgs = NoResult
    /\ agreePc = "idle"
    /\ agreeQuote = NoResult
    /\ agreeMinOut = NoResult
    /\ agreeSwap = NoResult

RestIdle == BuildIdle /\ MainIdle /\ DeriveIdle /\ ReportIdle /\ DiscoverIdle /\ RouteIdle /\ MinOutIdle /\ MarketIdle /\ AgreeIdle
IdleExceptBuild  == MainIdle /\ DeriveIdle /\ ReportIdle /\ DiscoverIdle /\ RouteIdle /\ MinOutIdle /\ MarketIdle /\ AgreeIdle
IdleExceptMain   == BuildIdle /\ DeriveIdle /\ ReportIdle /\ DiscoverIdle /\ RouteIdle /\ MinOutIdle /\ MarketIdle /\ AgreeIdle
IdleExceptDerive == BuildIdle /\ MainIdle /\ ReportIdle /\ DiscoverIdle /\ RouteIdle /\ MinOutIdle /\ MarketIdle /\ AgreeIdle
IdleExceptReport == BuildIdle /\ MainIdle /\ DeriveIdle /\ DiscoverIdle /\ RouteIdle /\ MinOutIdle /\ MarketIdle /\ AgreeIdle
IdleExceptDiscover == BuildIdle /\ MainIdle /\ DeriveIdle /\ ReportIdle /\ RouteIdle /\ MinOutIdle /\ MarketIdle /\ AgreeIdle
IdleExceptRoute  == BuildIdle /\ MainIdle /\ DeriveIdle /\ ReportIdle /\ DiscoverIdle /\ MinOutIdle /\ MarketIdle /\ AgreeIdle
IdleExceptMinOut == BuildIdle /\ MainIdle /\ DeriveIdle /\ ReportIdle /\ DiscoverIdle /\ RouteIdle /\ MarketIdle /\ AgreeIdle
IdleExceptMarket == BuildIdle /\ MainIdle /\ DeriveIdle /\ ReportIdle /\ DiscoverIdle /\ RouteIdle /\ MinOutIdle /\ AgreeIdle
IdleExceptAgree == BuildIdle /\ MainIdle /\ DeriveIdle /\ ReportIdle /\ DiscoverIdle /\ RouteIdle /\ MinOutIdle /\ MarketIdle

(***************************************************************************)
(* Public keys                                                             *)
(***************************************************************************)
KeyLen == 32

\* A 32-byte key whose bytes are all b.  The model's stand-in for a base58
\* literal whose bytes it does not decode; distinct b give distinct keys.
Key(b) == [n \in 1..KeyLen |-> b]

\* solana.SystemProgramID, "11111111111111111111111111111111": 32 zero bytes.
SystemProgramID == Key(0)

\* solana.PublicKey.IsZero
IsZero(pk) == pk = Key(0)

RAYDIUM_AMM_V4   == Key(1)
OPENBOOK_PROGRAM == Key(2)
TokenProgramID   == Key(3)
SOL_MINT         == Key(4)
WSOL_MINT        == Key(5)

\* The address CreateProgramAddress(seeds, program) returns when it succeeds.
Pda(seeds, program) == <<"pda", seeds, program>>

(***************************************************************************)
(* uint64 as four 16-bit limbs, and its little-endian serialisation        *)
(***************************************************************************)
ByteBase == 256
LimbBase == ByteBase * ByteBase

IsU64(v) == /\ DOMAIN v = 1..4
            /\ \A k \in 1..4 : v[k] \in 0..(LimbBase - 1)

\* byte(v >> (8*k)) for k in 0..7
ByteOf(v, k) ==
    LET limb == v[(k \div 2) + 1]
    IN  IF k % 2 = 0 THEN limb % ByteBase ELSE (limb \div ByteBase) % ByteBase

\* binary.LittleEndian.PutUint64: b[k] = byte(v >> (8*k))
PutUint64(v) == [n \in 1..8 |-> ByteOf(v, n - 1)]

\* binary.LittleEndian.Uint64: b[0] | b[1]<<8 | ... | b[7]<<56
Uint64(b) == [k \in 1..4 |-> b[2 * k - 1] + ByteBase * b[2 * k]]

(***************************************************************************)
(* Program-address derivation (solana.CreateProgramAddress and             *)
(* solana.FindProgramAddress as the source calls them)                     *)
(***************************************************************************)
\* The sets of off-curve nonces the model draws from: none, only the first,
\* only 254 (the last the loop of createSwapInstruction tries), only 255
\* (the one it leaves out), two in the middle, and all.
OffCurveChoices == { {}, {0}, {254}, {255}, {3, 200}, 0..255 }

\* solana.CreateProgramAddress(seeds ++ [nonce], program): an error when the
\* candidate lies on the curve, the candidate otherwise.
CreateProgramAddress(seeds, nonce, program, oc) ==
    IF nonce \in oc
    THEN [err |-> FALSE, key |-> Pda(Append(seeds, <<nonce>>), program), nonce |-> nonce]
    ELSE [err |-> TRUE, key |-> SystemProgramID, nonce |-> nonce]

\* A search that tries the bump seeds 0 up to 255 and returns the first
\* candidate that is off-curve.
FindProgramAddressAscending(seeds, program, oc) ==
    LET hits == { b \in 0..255 : ~CreateProgramAddress(seeds, b, program, oc).err }
    IN  IF hits = {}
        THEN [err |-> TRUE, key |-> SystemProgramID, nonce |-> 0]
        ELSE CreateProgramAddress(seeds, CHOOSE b \in hits : \A c \in hits : b <= c, program, oc)

\* solana.FindProgramAddress(seeds, program): bumpSeed starts at 255 and is
\* decremented while bumpSeed != 0, so the bump seeds 255 down to 1 are tried
\* and the first candidate that is off-curve is returned, an error if there
\* is none.  (The first hit of a descending loop is the largest bump that
\* succeeds.)
FindProgramAddress(seeds, program, oc) ==
    LET hits == { b \in 1..255 : ~CreateProgramAddress(seeds, b, program, oc).err }
    IN  IF hits = {}
        THEN [err |-> TRUE, key |-> SystemProgramID, nonce |-> 0]
        ELSE CreateProgramAddress(seeds, CHOOSE b \in hits : \A c \in hits : c <= b,
                                  program, oc)

\* The loop of createSwapInstruction: for nonce := uint8(0); nonce < 255; nonce++
\* with a break at the first candidate that is off-curve.  found is false
\* when no nonce below 255 gave a candidate.  (The first hit of an ascending
\* loop is the smallest nonce that succeeds.)
VaultSignerLoop(pool, oc) ==
    LET hits == { n \in 0..254 :
                    ~CreateProgramAddress(<<pool.Market>>, n, pool.MarketProgram, oc).err }
    IN  IF hits = {}
        THEN [found |-> FALSE, key |-> SystemProgramID]
        ELSE [found |-> TRUE,
              key   |-> CreateProgramAddress(<<pool.Market>>,
                            CHOOSE n \in hits : \A m \in hits : n <= m,
                            pool.MarketProgram, oc).key]

\* A vault signer that falls back to the placeholder of the no-market case
\* when no nonce yields an address.
MarketVaultSignerOrPlaceholder(pool, oc) ==
    IF ~IsZero(pool.Market) /\ pool.MarketProgram = OPENBOOK_PROGRAM
    THEN LET l == VaultSignerLoop(pool, oc)
         IN  IF l.found THEN [err |-> FALSE, key |-> l.key]
             ELSE [err |-> FALSE, key |-> FindProgramAddress(<<pool.Market>>, pool.MarketProgram, oc).key]
    ELSE [err |-> FALSE, key |-> SystemProgramID]

\* A vault signer derived for every market program.
MarketVaultSignerAnyProgram(pool, oc) ==
    IF ~IsZero(pool.Market)
    THEN LET l == VaultSignerLoop(pool, oc)
         IN  IF l.found THEN [err |-> FALSE, key |-> l.key]
             ELSE LET f == FindProgramAddress(<<pool.Market>>, pool.MarketProgram, oc)
                  IN  [err |-> f.err, key |-> f.key]
    ELSE [err |-> FALSE, key |-> SystemProgramID]

\* The market vault signer of createSwapInstruction, with the error it may
\* return.  The err of the loop body is a new variable (candidate, err :=),
\* so the outer err is set by FindProgramAddress alone.
MarketVaultSigner(pool, oc) ==
    IF ~IsZero(pool.Market) /\ pool.MarketProgram = OPENBOOK_PROGRAM
    THEN LET l == VaultSignerLoop(pool, oc)
         IN  IF l.found THEN [err |-> FALSE, key |-> l.key]
             ELSE LET f == FindProgramAddress(<<pool.Market>>, pool.MarketProgram, oc)
                  IN  [err |-> f.err, key |-> f.key]
    ELSE [err |-> FALSE, key |-> SystemProgramID]

(***************************************************************************)
(* createSwapInstruction                                                   *)
(***************************************************************************)
RAYDIUM_SWAP_INSTRUCTION == 9

\* SwapData with the two amounts written most significant byte first.
SwapDataBigEndian(amountIn, minAmountOut) ==
    <<RAYDIUM_SWAP_INSTRUCTION>>
        \o [n \in 1..8 |-> ByteOf(amountIn, 8 - n)]
        \o [n \in 1..8 |-> ByteOf(minAmountOut, 8 - n)]

\* buf: the opcode byte, then amountIn and minAmountOut, each by PutUint64.
SwapData(amountIn, minAmountOut) ==
    <<RAYDIUM_SWAP_INSTRUCTION>> \o PutUint64(amountIn) \o PutUint64(minAmountOut)

Meta(pk, signer, writable) ==
    [PublicKey |-> pk, IsSigner |-> signer, IsWritable |-> writable]

\* SwapAccounts in which the vaults follow the swap direction's other
\* order (quote vault before base vault) and the market is read-only.
SwapAccountsVaultsSwapped(pool, marketVaultSigner, userSource, userDestination, userOwner) ==
    << Meta(TokenProgramID,        FALSE, FALSE),
       Meta(pool.Address,          FALSE, TRUE),
       Meta(pool.Authority,        FALSE, FALSE),
       Meta(pool.OpenOrders,       FALSE, TRUE),
       Meta(pool.TargetOrders,     FALSE, TRUE),
       Meta(pool.QuoteVault,       FALSE, TRUE),
       Meta(pool.BaseVault,        FALSE, TRUE),
       Meta(pool.MarketProgram,    FALSE, FALSE),
       Meta(pool.Market,           FALSE, FALSE),
       Meta(pool.MarketBids,       FALSE, TRUE),
       Meta(pool.MarketAsks,       FALSE, TRUE),
       Meta(pool.MarketEventQueue, FALSE, TRUE),
       Meta(pool.MarketBaseVault,  FALSE, TRUE),
       Meta(pool.MarketQuoteVault, FALSE, TRUE),
       Meta(marketVaultSigner,     FALSE, FALSE),
       Meta(userSource,            FALSE, TRUE),
       Meta(userDestination,       FALSE, TRUE),
       Meta(userOwner,             TRUE,  FALSE) >>

\* accounts := []*solana.AccountMeta{...}
SwapAccounts(pool, marketVaultSigner, userSource, userDestination, userOwner) ==
    << Meta(TokenProgramID,        FALSE, FALSE),
       Meta(pool.Address,          FALSE, TRUE),
       Meta(pool.Authority,        FALSE, FALSE),
       Meta(pool.OpenOrders,       FALSE, TRUE),
       Meta(pool.TargetOrders,     FALSE, TRUE),
       Meta(pool.BaseVault,        FALSE, TRUE),
       Meta(pool.QuoteVault,       FALSE, TRUE),
       Meta(pool.MarketProgram,    FALSE, FALSE),
       Meta(pool.Market,           FALSE, TRUE),
       Meta(pool.MarketBids,       FALSE, TRUE),
       Meta(pool.MarketAsks,       FALSE, TRUE),
       Meta(pool.MarketEventQueue, FALSE, TRUE),
       Meta(pool.MarketBaseVault,  FALSE, TRUE),
       Meta(pool.MarketQuoteVault, FALSE, TRUE),
       Meta(marketVaultSigner,     FALSE, FALSE),
       Meta(userSource,            FALSE, TRUE),
       Meta(userDestination,       FALSE, TRUE),
       Meta(userOwner,             TRUE,  FALSE) >>

\* The (instruction, error) pair createSwapInstruction returns.
createSwapInstruction(pool, userSource, userDestination, userOwner, amountIn, minAmountOut, isBaseToQuote, oc) ==
    LET signer == MarketVaultSigner(pool, oc)
    IN  IF signer.err
        THEN [status |-> "err", by |-> "createSwapInstruction"]
        ELSE [status    |-> "ok",
              by        |-> "createSwapInstruction",
              ProgramID |-> RAYDIUM_AMM_V4,
              Accounts  |-> SwapAccounts(pool, signer.key, userSource,
                                         userDestination, userOwner),
              Data      |-> SwapData(amountIn, minAmountOut)]

(***************************************************************************)
(* CreateRaydiumSwapInstruction (src/raydium_swap.go), the variant that    *)
(* takes the pool from the Raydium API                                     *)
(***************************************************************************)
\* bin.NewBorshEncoder(buf).Encode(RaydiumSwapLayout{9, amountIn, minAmountOut}):
\* Borsh writes the fields in order, a u8 as one byte, a u64 little-endian.
BorshSwapLayout(amountIn, minAmountOut) ==
    <<9>> \o PutUint64(amountIn) \o PutUint64(minAmountOut)

RaydiumSwapAccounts(api, userSource, userDestination, userOwner) ==
    << Meta(TokenProgramID,       FALSE, FALSE),
       Meta(api.ID,               FALSE, TRUE),
       Meta(api.Authority,        FALSE, FALSE),
       Meta(api.OpenOrders,       FALSE, TRUE),
       Meta(api.TargetOrders,     FALSE, TRUE),
       Meta(api.BaseVault,        FALSE, TRUE),
       Meta(api.QuoteVault,       FALSE, TRUE),
       Meta(api.MarketProgramID,  FALSE, FALSE),
       Meta(api.MarketID,         FALSE, TRUE),
       Meta(api.MarketBids,       FALSE, TRUE),
       Meta(api.MarketAsks,       FALSE, TRUE),
       Meta(api.MarketEventQueue, FALSE, TRUE),
       Meta(api.MarketBaseVault,  FALSE, TRUE),
       Meta(api.MarketQuoteVault, FALSE, TRUE),
       Meta(api.MarketAuthority,  FALSE, FALSE),
       Meta(userSource,           FALSE, TRUE),
       Meta(userDestination,      FALSE, TRUE),
       Meta(userOwner,            TRUE,  FALSE) >>

CreateRaydiumSwapInstruction(api, userSource, userDestination, userOwner, amountIn, minAmountOut) ==
    [status    |-> "ok",
     by        |-> "CreateRaydiumSwapInstruction",
     ProgramID |-> api.ProgramID,
     Accounts  |-> RaydiumSwapAccounts(api, userSource, userDestination, userOwner),
     Data      |-> BorshSwapLayout(amountIn, minAmountOut)]

(***************************************************************************)
(* SpecSwapIx: the inputs of one call and the call                         *)
(***************************************************************************)
\* Number of the last pool variation drawn (variation v shifts every key).
MaxPoolVariant == 1

\* uint64 values drawn for amountIn and minAmountOut: zero, the maximum,
\* 0x0102 alone in each limb, a value whose eight bytes all differ, and one.
U64Samples ==
    { <<0, 0, 0, 0>>, <<65535, 65535, 65535, 65535>>,
      <<258, 0, 0, 0>>, <<0, 258, 0, 0>>, <<0, 0, 258, 0>>, <<0, 0, 0, 258>>,
      <<513, 1027, 1541, 2055>>, <<1, 0, 0, 0>> }

\* A decoded pool (OnChainPool) whose keys are pairwise different.
OnChainPoolSample(v, market, marketProgram) ==
    [Address          |-> Key(20 + 40 * v),
     Authority        |-> Key(21 + 40 * v),
     OpenOrders       |-> Key(22 + 40 * v),
     TargetOrders     |-> Key(23 + 40 * v),
     BaseVault        |-> Key(24 + 40 * v),
     QuoteVault       |-> Key(25 + 40 * v),
     MarketProgram    |-> marketProgram,
     Market           |-> market,
     MarketBids       |-> Key(26 + 40 * v),
     MarketAsks       |-> Key(27 + 40 * v),
     MarketEventQueue |-> Key(28 + 40 * v),
     MarketBaseVault  |-> Key(29 + 40 * v),
     MarketQuoteVault |-> Key(30 + 40 * v)]

\* The same pool as the Raydium API describes it (RaydiumPoolInfo).
ApiPoolOf(pool, v) ==
    [ID               |-> pool.Address,
     ProgramID        |-> RAYDIUM_AMM_V4,
     Authority        |-> pool.Authority,
     OpenOrders       |-> pool.OpenOrders,
     TargetOrders     |-> pool.TargetOrders,
     BaseVault        |-> pool.BaseVault,
     QuoteVault       |-> pool.QuoteVault,
     MarketProgramID  |-> pool.MarketProgram,
     MarketID         |-> pool.Market,
     MarketBids       |-> pool.MarketBids,
     MarketAsks       |-> pool.MarketAsks,
     MarketEventQueue |-> pool.MarketEventQueue,
     MarketBaseVault  |-> pool.MarketBaseVault,
     MarketQuoteVault |-> pool.MarketQuoteVault,
     MarketAuthority  |-> Key(31 + 40 * v)]

SwapArgsSamples ==
    { [pool            |-> OnChainPoolSample(v, m, mp),
       api             |-> ApiPoolOf(OnChainPoolSample(v, m, mp), v),
       userSource      |-> Key(32 + 40 * v),
       userDestination |-> Key(33 + 40 * v),
       userOwner       |-> Key(34 + 40 * v),
       amountIn        |-> a,
       minAmountOut    |-> mo,
       isBaseToQuote   |-> d] :
         v \in 0..MaxPoolVariant,
         m \in {Key(0), Key(10)},
         mp \in {OPENBOOK_PROGRAM, Key(11)},
         a \in U64Samples, mo \in U64Samples, d \in BOOLEAN }

SwapInit ==
    /\ swapArgs \in SwapArgsSamples
    /\ offCurve \in OffCurveChoices
    /\ swapIx = NoResult

\* main.go: one call of createSwapInstruction
CallCreateSwapInstruction ==
    /\ swapIx = NoResult
    /\ swapIx' = createSwapInstruction(swapArgs.pool, swapArgs.userSource,
                     swapArgs.userDestination, swapArgs.userOwner,
                     swapArgs.amountIn, swapArgs.minAmountOut,
                     swapArgs.isBaseToQuote, offCurve)
    /\ UNCHANGED <<swapArgs, offCurve>>

\* raydium_swap.go: one call of CreateRaydiumSwapInstruction
CallCreateRaydiumSwapInstruction ==
    /\ swapIx = NoResult
    /\ swapIx' = CreateRaydiumSwapInstruction(swapArgs.api, swapArgs.userSource,
                     swapArgs.userDestination, swapArgs.userOwner,
                     swapArgs.amountIn, swapArgs.minAmountOut)
    /\ UNCHANGED <<swapArgs, offCurve>>


InitSwapIx == SwapInit /\ ParseIdle /\ QuoteIdle /\ SlipIdle /\ SubmitIdle /\ RestIdle

NextSwapIx ==
    \/ CallCreateSwapInstruction /\ UNCHANGED <<parseVars, quoteVars, slipVars, submitVars, restVars>>
    \/ CallCreateRaydiumSwapInstruction /\ UNCHANGED <<parseVars, quoteVars, slipVars, submitVars, restVars>>

SpecSwapIx == InitSwapIx /\ [][NextSwapIx]_vars

(***************************************************************************)
(* Claims about createSwapInstruction                                      *)
(***************************************************************************)
\* The limbs a little-endian byte string of eight bytes stands for.
LimbsOfBytes(d, first) ==
    [k \in 1..4 |-> d[first + 2 * (k - 1)] + 256 * d[first + 2 * (k - 1) + 1]]

\* C1: the data of every swap instruction built is exactly 17 bytes: byte 0 is
\* the opcode 9, bytes 1..8 are amountIn little-endian, bytes 9..16 are
\* minAmountOut little-endian, and decoding the three fields gives back the
\* triple (9, amountIn, minAmountOut).
C1_PayloadIs17BytesLittleEndian ==
    swapIx.status = "ok" =>
        LET d == swapIx.Data
        IN  /\ Len(d) = 17
            /\ \A n \in 1..17 : d[n] \in 0..255
            /\ d[1] = 9
            /\ LimbsOfBytes(d, 2) = swapArgs.amountIn
            /\ LimbsOfBytes(d, 10) = swapArgs.minAmountOut
            /\ <<d[1], Uint64(SubSeq(d, 2, 9)), Uint64(SubSeq(d, 10, 17))>>
                 = <<9, swapArgs.amountIn, swapArgs.minAmountOut>>

\* C1 witness: createSwapInstruction has encoded an amountIn whose eight bytes
\* all differ and the largest minAmountOut.
C1_Witness ==
    /\ swapIx.status = "ok"
    /\ swapIx.by = "createSwapInstruction"
    /\ swapArgs.amountIn = <<513, 1027, 1541, 2055>>
    /\ swapArgs.minAmountOut = <<65535, 65535, 65535, 65535>>
    /\ swapIx.Data[2] = 1 /\ swapIx.Data[3] = 2 /\ swapIx.Data[9] = 8

\* The addresses createSwapInstruction may put at entry 14: the placeholder,
\* or an address derived from the market's address, a nonce and the market
\* program.
VaultSignerAddresses(pool) ==
    {SystemProgramID} \cup
    { Pda(<<pool.Market, <<n>> >>, pool.MarketProgram) : n \in 0..255 }

WritableEntries == {1, 3, 4, 5, 6, 8, 9, 10, 11, 12, 13, 15, 16}

\* C2: the swap instruction is addressed to the AMM program and lists exactly
\* 18 accounts in the protocol's order; entries 1,3,4,5,6,8..13,15,16 are
\* writable, the others read-only, entry 17 is the only signer; neither
\* depends on the swap direction.  (Entries are numbered from 0.)
C2_AccountListOrderAndFlags ==
    swapIx.status = "ok" =>
        LET acc  == swapIx.Accounts
            pool == swapArgs.pool
            api  == swapArgs.api
            main == swapIx.by = "createSwapInstruction"
        IN  /\ Len(acc) = 18
            /\ swapIx.ProgramID = RAYDIUM_AMM_V4
            /\ \A n \in 0..17 : acc[n + 1].IsWritable <=> n \in WritableEntries
            /\ \A n \in 0..17 : acc[n + 1].IsSigner <=> n = 17
            /\ acc[1].PublicKey  = TokenProgramID
            /\ acc[2].PublicKey  = pool.Address
            /\ acc[3].PublicKey  = pool.Authority
            /\ acc[4].PublicKey  = pool.OpenOrders
            /\ acc[5].PublicKey  = pool.TargetOrders
            /\ acc[6].PublicKey  = pool.BaseVault
            /\ acc[7].PublicKey  = pool.QuoteVault
            /\ acc[8].PublicKey  = pool.MarketProgram
            /\ acc[9].PublicKey  = pool.Market
            /\ acc[10].PublicKey = pool.MarketBids
            /\ acc[11].PublicKey = pool.MarketAsks
            /\ acc[12].PublicKey = pool.MarketEventQueue
            /\ acc[13].PublicKey = pool.MarketBaseVault
            /\ acc[14].PublicKey = pool.MarketQuoteVault
            /\ main => acc[15].PublicKey \in VaultSignerAddresses(pool)
            /\ ~main => acc[15].PublicKey = api.MarketAuthority
            /\ acc[16].PublicKey = swapArgs.userSource
            /\ acc[17].PublicKey = swapArgs.userDestination
            /\ acc[18].PublicKey = swapArgs.userOwner
            /\ main => acc = createSwapInstruction(pool, swapArgs.userSource,
                                 swapArgs.userDestination, swapArgs.userOwner,
                                 swapArgs.amountIn, swapArgs.minAmountOut,
                                 ~swapArgs.isBaseToQuote, offCurve).Accounts

\* C2 witness: an instruction built for a pool with a real OpenBook market,
\* quote-to-base, whose entry 14 is a derived address.
C2_Witness ==
    /\ swapIx.status = "ok"
    /\ swapIx.by = "createSwapInstruction"
    /\ ~IsZero(swapArgs.pool.Market)
    /\ swapArgs.pool.MarketProgram = OPENBOOK_PROGRAM
    /\ ~swapArgs.isBaseToQuote
    /\ swapIx.Accounts[15].PublicKey # SystemProgramID
    /\ Len(swapIx.Accounts) = 18


(***************************************************************************)
(* parsePoolAccount, getTokenDecimals, fetchVaultBalances and the reserves *)
(* their callers read (calculateQuoteOnChain, findPoolsOnChain)            *)
(***************************************************************************)
PoolAccountSize == 752
MintAccountSize == 82
SOL_DECIMALS    == 9

\* The seed "amm authority" of the authority derivation.
AUTHORITY_AMM_SEED == <<"amm authority">>

U64Zero == <<0, 0, 0, 0>>

\* a > b on uint64
GtU64(a, b) == \E k \in 1..4 : a[k] > b[k] /\ \A j \in (k + 1)..4 : a[j] = b[j]

\* uint64(1e18) = 0x0DE0B6B3A7640000
OneE18 == <<0, 42852, 46771, 3552>>

\* data[o] and data[lo:hi], offsets counted from 0 as in Go
At(data, o) == data[o + 1]
Slice(data, lo, hi) == SubSeq(data, lo + 1, hi)

\* solana.PublicKeyFromBytes: a copy of the 32 bytes
PublicKeyFromBytes(b) == [n \in 1..KeyLen |-> b[n]]

\* The zero value of OnChainPool (src/main.go) with its address set.
NewOnChainPool(address) ==
    [Address |-> address,
     BaseMint |-> Key(0), QuoteMint |-> Key(0),
     BaseVault |-> Key(0), QuoteVault |-> Key(0),
     BaseAmount |-> U64Zero, QuoteAmount |-> U64Zero,
     BaseDecimals |-> 0, QuoteDecimals |-> 0,
     Authority |-> Key(0), OpenOrders |-> Key(0), TargetOrders |-> Key(0),
     MarketProgram |-> Key(0), Market |-> Key(0),
     MarketBids |-> Key(0), MarketAsks |-> Key(0), MarketEventQueue |-> Key(0),
     MarketBaseVault |-> Key(0), MarketQuoteVault |-> Key(0),
     Nonce |-> 0, MarketNonce |-> 0]

\* parsePoolAccount of src/main.go
parsePoolAccount(address, data, oc) ==
    IF Len(data) < PoolAccountSize
    THEN [status |-> "err", pool |-> NoResult]
    ELSE LET auth == FindProgramAddress(AUTHORITY_AMM_SEED, RAYDIUM_AMM_V4, oc)
             pool == [NewOnChainPool(address) EXCEPT
                        !.Nonce         = At(data, 8),
                        !.BaseVault     = PublicKeyFromBytes(Slice(data, 336, 368)),
                        !.QuoteVault    = PublicKeyFromBytes(Slice(data, 368, 400)),
                        !.BaseMint      = PublicKeyFromBytes(Slice(data, 400, 432)),
                        !.QuoteMint     = PublicKeyFromBytes(Slice(data, 432, 464)),
                        !.OpenOrders    = PublicKeyFromBytes(Slice(data, 464, 496)),
                        !.TargetOrders  = PublicKeyFromBytes(Slice(data, 592, 624)),
                        !.Market        = PublicKeyFromBytes(Slice(data, 656, 688)),
                        !.MarketProgram = PublicKeyFromBytes(Slice(data, 688, 720)),
                        !.BaseAmount    = U64Zero,
                        !.QuoteAmount   = U64Zero]
         IN  IF auth.err
             THEN [status |-> "err", pool |-> NoResult]
             ELSE [status |-> "ok", pool |-> [pool EXCEPT !.Authority = auth.key]]

\* The zero value of OnChainPool (src/main_working.go) with its address set.
NewOnChainPoolWorking(address) ==
    [Address |-> address,
     BaseMint |-> Key(0), QuoteMint |-> Key(0),
     BaseVault |-> Key(0), QuoteVault |-> Key(0),
     BaseAmount |-> U64Zero, QuoteAmount |-> U64Zero,
     BaseDecimals |-> 0, QuoteDecimals |-> 0]

\* The amounts parsePoolAccount of src/main_working.go reads from the account:
\* offsets 685/693, if one is above 1e18 offsets 85/93, if one is still above
\* 1e18 offsets 465/473.
BlobAmounts(data) ==
    LET a1 == <<Uint64(Slice(data, 685, 693)), Uint64(Slice(data, 693, 701))>>
        a2 == <<Uint64(Slice(data, 85, 93)),   Uint64(Slice(data, 93, 101))>>
        a3 == <<Uint64(Slice(data, 465, 473)), Uint64(Slice(data, 473, 481))>>
        big(a) == GtU64(a[1], OneE18) \/ GtU64(a[2], OneE18)
    IN  IF ~big(a1) THEN a1 ELSE IF ~big(a2) THEN a2 ELSE a3

\* parsePoolAccount of src/main_working.go
parsePoolAccountWorking(address, data) ==
    IF Len(data) < PoolAccountSize
    THEN [status |-> "err", pool |-> NoResult]
    ELSE [status |-> "ok",
          pool |-> [NewOnChainPoolWorking(address) EXCEPT
                      !.BaseMint    = PublicKeyFromBytes(Slice(data, 400, 432)),
                      !.QuoteMint   = PublicKeyFromBytes(Slice(data, 432, 464)),
                      !.BaseVault   = PublicKeyFromBytes(Slice(data, 496, 528)),
                      !.QuoteVault  = PublicKeyFromBytes(Slice(data, 528, 560)),
                      !.BaseAmount  = BlobAmounts(data)[1],
                      !.QuoteAmount = BlobAmounts(data)[2]]]

\* What GetAccountInfo answers for a mint: an error, or an account of some
\* length whose byte 44 is the decimal count.
MintAccountResults ==
    { [kind |-> "rpcerr", len |-> 0, byte44 |-> 0],
      [kind |-> "ok", len |-> 81, byte44 |-> 6],
      [kind |-> "ok", len |-> 82, byte44 |-> 5],
      [kind |-> "ok", len |-> 82, byte44 |-> 6] }

\* getTokenDecimals (the same in both files)
getTokenDecimals(mint, r) ==
    IF mint = WSOL_MINT \/ mint = SOL_MINT
    THEN [err |-> FALSE, decimals |-> SOL_DECIMALS]
    ELSE IF r.kind = "rpcerr" THEN [err |-> TRUE, decimals |-> 0]
    ELSE IF r.len < MintAccountSize THEN [err |-> TRUE, decimals |-> 0]
    ELSE [err |-> FALSE, decimals |-> r.byte44]

\* What GetTokenAccountBalance answers for a vault: an error, an amount that
\* strconv.ParseUint rejects, or the decimal string of a uint64.
VaultBalanceResults ==
    { [kind |-> "rpcerr", amount |-> U64Zero],
      [kind |-> "bad",    amount |-> U64Zero],
      [kind |-> "ok",     amount |-> U64Zero],
      [kind |-> "ok",     amount |-> <<51712, 15258, 0, 0>>],
      [kind |-> "ok",     amount |-> <<1, 0, 0, 4000>>] }

\* fetchVaultBalances: the error it returns and the pool it leaves.  A failed
\* ParseUint assigns its zero result before the error is returned.
fetchVaultBalances(pool, rb, rq) ==
    IF rb.kind = "rpcerr" THEN [err |-> TRUE, pool |-> pool]
    ELSE IF rq.kind = "rpcerr" THEN [err |-> TRUE, pool |-> pool]
    ELSE IF rb.kind = "bad"
         THEN [err |-> TRUE, pool |-> [pool EXCEPT !.BaseAmount = U64Zero]]
    ELSE IF rq.kind = "bad"
         THEN [err |-> TRUE, pool |-> [pool EXCEPT !.BaseAmount = rb.amount,
                                                   !.QuoteAmount = U64Zero]]
    ELSE [err |-> FALSE, pool |-> [pool EXCEPT !.BaseAmount = rb.amount,
                                               !.QuoteAmount = rq.amount]]

\* isBaseSol of calculateQuoteOnChain, executeSwap, main and findPoolsOnChain
IsBaseSol(pool) == pool.BaseMint = WSOL_MINT \/ pool.BaseMint = SOL_MINT

\* A direction that follows the position of the native mint alone.
QuoteIsBaseToQuoteIgnoringSide(pool, sd) == IsBaseSol(pool)

\* isBaseToQuote of calculateQuoteOnChain
QuoteIsBaseToQuote(pool, sd) ==
    IF sd = "buy" THEN IsBaseSol(pool) ELSE ~IsBaseSol(pool)

\* The (reserveOut, reserveIn) arguments calculateQuoteOnChain passes to
\* calculateSwapAmount.
QuoteReserves(pool, sd) ==
    IF QuoteIsBaseToQuote(pool, sd)
    THEN [by |-> "quote", reserveOut |-> pool.QuoteAmount, reserveIn |-> pool.BaseAmount]
    ELSE [by |-> "quote", reserveOut |-> pool.BaseAmount, reserveIn |-> pool.QuoteAmount]

\* solReserves of the selection loop of findPoolsOnChain
SolReserves(pool) ==
    IF IsBaseSol(pool) THEN pool.BaseAmount ELSE pool.QuoteAmount


(***************************************************************************)
(* SpecParse: one pool account taken through parsePoolAccount, the decimal *)
(* and vault-balance fetches, to the place where its reserves are read     *)
(***************************************************************************)
\* Bytes an account may have beyond the 752 a pool needs.
MaxExtra == 1
\* Largest stride of the byte patterns the accounts are filled with.
MaxStride == 2

\* Byte o of the pattern (stride k, start c); 251 is prime, so no two of the
\* offsets the parsers read carry the same bytes when k > 0.
PatternByte(k, c, o) == (c + k * o) % 251

\* An account of len bytes filled with a pattern; mints says whether the
\* bytes of the base or of the quote mint are those of the native mint.
AcctBlob(len, k, c, mints) ==
    [n \in 1..len |->
        LET o == n - 1
        IN  IF mints = "baseWsol" /\ o \in 400..431 THEN WSOL_MINT[o - 399]
            ELSE IF mints = "quoteSol" /\ o \in 432..463 THEN SOL_MINT[o - 431]
            ELSE PatternByte(k, c, o)]

AcctSamples ==
    { AcctBlob(len, k, c, mints) :
        len \in {0, 9, PoolAccountSize - 1, PoolAccountSize, PoolAccountSize + MaxExtra},
        k \in 0..MaxStride,
        c \in {0, 7, 100, 250},
        mints \in {"raw", "baseWsol", "quoteSol"} }

\* The address of the account parsed.
PoolAddress == Key(20)

\* The derivation of the authority has fixed inputs and succeeds on the
\* ledger; which nonce it finds is not known to the model.
AuthorityOffCurveChoices == { oc \in OffCurveChoices : oc \cap (1..255) # {} }

ParseInit ==
    /\ variant \in {"main.go", "main_working.go"}
    /\ acctData \in AcctSamples
    /\ side \in {"buy", "sell"}
    /\ parsePc = "start"
    /\ parsed = NoResult
    /\ fetched = NoResult
    /\ reservesUsed = NoResult

\* pool, err := parsePoolAccount(...), and the caller's return (or continue)
\* on an error
ParsePool ==
    /\ parsePc = "start"
    /\ parsed' = IF variant = "main.go"
                 THEN parsePoolAccount(PoolAddress, acctData, offCurve)
                 ELSE parsePoolAccountWorking(PoolAddress, acctData)
    /\ parsePc' = IF parsed'.status = "ok" THEN "parsed" ELSE "failed"
    /\ UNCHANGED <<variant, acctData, side, fetched, reservesUsed>>

\* pool.BaseDecimals, err = getTokenDecimals(...); pool.QuoteDecimals, err = ...
GetDecimals ==
    /\ parsePc = "parsed"
    /\ \E rb \in MintAccountResults, rq \in MintAccountResults :
          LET db == getTokenDecimals(parsed.pool.BaseMint, rb)
              dq == getTokenDecimals(parsed.pool.QuoteMint, rq)
          IN  IF db.err
              THEN /\ parsed' = [parsed EXCEPT !.pool.BaseDecimals = db.decimals]
                   /\ parsePc' = "failed"
              ELSE /\ parsed' = [parsed EXCEPT !.pool.BaseDecimals = db.decimals,
                                               !.pool.QuoteDecimals = dq.decimals]
                   /\ parsePc' = IF dq.err THEN "failed" ELSE "decimals"
    /\ UNCHANGED <<variant, acctData, side, fetched, reservesUsed>>

\* err = fetchVaultBalances(ctx, client, pool), in src/main.go only
FetchVaultBalances ==
    /\ parsePc = "decimals"
    /\ variant = "main.go"
    /\ \E rb \in VaultBalanceResults, rq \in VaultBalanceResults :
          LET f == fetchVaultBalances(parsed.pool, rb, rq)
          IN  /\ fetched' = [status |-> IF f.err THEN "err" ELSE "ok",
                             baseVault |-> parsed.pool.BaseVault,
                             quoteVault |-> parsed.pool.QuoteVault,
                             base |-> rb, quote |-> rq]
              /\ parsed' = [parsed EXCEPT !.pool = f.pool]
              /\ parsePc' = IF f.err THEN "failed" ELSE "fetched"
    /\ UNCHANGED <<variant, acctData, side, reservesUsed>>

\* Where the reserves are read: after fetchVaultBalances in src/main.go,
\* right after the decimals in src/main_working.go, which fetches nothing.
ReadyToRead ==
    \/ variant = "main.go" /\ parsePc = "fetched"
    \/ variant = "main_working.go" /\ parsePc = "decimals"

\* calculateQuoteOnChain: amountOut = calculateSwapAmount(reserveOut, reserveIn, amountIn)
QuoteReadsReserves ==
    /\ ReadyToRead
    /\ reservesUsed' = QuoteReserves(parsed.pool, side)
    /\ parsePc' = "quoted"
    /\ UNCHANGED <<variant, acctData, side, parsed, fetched>>

\* findPoolsOnChain: solReserves > maxLiquidity
SelectReadsReserves ==
    /\ ReadyToRead
    /\ reservesUsed' = [by |-> "select", solReserves |-> SolReserves(parsed.pool)]
    /\ parsePc' = "selected"
    /\ UNCHANGED <<variant, acctData, side, parsed, fetched>>

InitParse ==
    /\ ParseInit
    /\ swapArgs = NoResult /\ swapIx = NoResult
    /\ offCurve \in AuthorityOffCurveChoices
    /\ QuoteIdle /\ SlipIdle /\ SubmitIdle /\ RestIdle

NextParse ==
    \/ ParsePool /\ UNCHANGED <<swapVars, quoteVars, slipVars, submitVars, restVars>>
    \/ GetDecimals /\ UNCHANGED <<swapVars, quoteVars, slipVars, submitVars, restVars>>
    \/ FetchVaultBalances /\ UNCHANGED <<swapVars, quoteVars, slipVars, submitVars, restVars>>
    \/ QuoteReadsReserves /\ UNCHANGED <<swapVars, quoteVars, slipVars, submitVars, restVars>>
    \/ SelectReadsReserves /\ UNCHANGED <<swapVars, quoteVars, slipVars, submitVars, restVars>>

SpecParse == InitParse /\ [][NextParse]_vars

(***************************************************************************)
(* Claims about parsePoolAccount and the reserves                          *)
(***************************************************************************)
\* The pool has the field and it holds these bytes.
HasField(pool, name, bytes) == name \in DOMAIN pool /\ pool[name] = bytes

\* The fields of a decoded pool are the bytes at the documented offsets.
FieldsAtDocumentedOffsets(pool, data) ==
    /\ HasField(pool, "BaseVault", Slice(data, 336, 368))
    /\ HasField(pool, "QuoteVault", Slice(data, 368, 400))
    /\ HasField(pool, "BaseMint", Slice(data, 400, 432))
    /\ HasField(pool, "QuoteMint", Slice(data, 432, 464))
    /\ HasField(pool, "Nonce", At(data, 8))
    /\ HasField(pool, "OpenOrders", Slice(data, 464, 496))
    /\ HasField(pool, "TargetOrders", Slice(data, 592, 624))
    /\ HasField(pool, "Market", Slice(data, 656, 688))
    /\ HasField(pool, "MarketProgram", Slice(data, 688, 720))

ParseAsDocumented ==
    parsed # NoResult =>
        /\ Len(acctData) < 752 => parsed.status = "err" /\ parsed.pool = NoResult
        /\ Len(acctData) >= 752 =>
              /\ parsed.status = "ok"
              /\ parsePc = "parsed" => FieldsAtDocumentedOffsets(parsed.pool, acctData)

\* C3: parsePoolAccount fails on fewer than 752 bytes and otherwise returns a
\* pool whose fields are the bytes at the documented offsets (nonce 8, base
\* vault [336,368), quote vault [368,400), base mint [400,432), quote mint
\* [432,464), open orders [464,496), target orders [592,624), market
\* [656,688), market program [688,720)).
C3_ParseExtractsDocumentedOffsets == ParseAsDocumented

\* C3 for the parsePoolAccount of src/main.go alone.
C3_MainGoParse == variant = "main.go" => ParseAsDocumented

\* A state in which src/main.go has decoded an account of 753 bytes.
C3_MainGoWitness ==
    /\ variant = "main.go" /\ parsePc = "parsed"
    /\ Len(acctData) > 752
    /\ parsed.pool.BaseVault # parsed.pool.TargetOrders

ReservesFromFetch ==
    /\ parsePc = "parsed" =>
          parsed.pool.BaseAmount = U64Zero /\ parsed.pool.QuoteAmount = U64Zero
    /\ reservesUsed # NoResult =>
          /\ fetched # NoResult
          /\ fetched.status = "ok"
          /\ fetched.baseVault = parsed.pool.BaseVault
          /\ fetched.quoteVault = parsed.pool.QuoteVault
          /\ LET b == fetched.base.amount
                 q == fetched.quote.amount
             IN  IF reservesUsed.by = "quote"
                 THEN IF QuoteIsBaseToQuote(parsed.pool, side)
                      THEN reservesUsed.reserveIn = b /\ reservesUsed.reserveOut = q
                      ELSE reservesUsed.reserveIn = q /\ reservesUsed.reserveOut = b
                 ELSE reservesUsed.solReserves =
                         IF IsBaseSol(parsed.pool) THEN b ELSE q

\* C4: right after parsePoolAccount both raw reserves are 0 whatever the bytes
\* hold, and every reserve read by the quote computation or by the pool
\* selection is the amount a balance fetch of that pool's vaults returned.
C4_ReservesOnlyFromVaultFetch == ReservesFromFetch

\* C4 for src/main.go alone.
C4_MainGoReserves == variant = "main.go" => ReservesFromFetch

\* A state in which src/main.go has read fetched, non-zero reserves of an
\* account whose bytes at the amount offsets are not zero.
C4_MainGoWitness ==
    /\ variant = "main.go" /\ parsePc = "quoted"
    /\ reservesUsed.reserveIn = <<1, 0, 0, 4000>>
    /\ reservesUsed.reserveOut = <<51712, 15258, 0, 0>>
    /\ Uint64(Slice(acctData, 685, 693)) # U64Zero


(***************************************************************************)
(* SpecQuote: calculateSwapAmount applied to two amounts over the same     *)
(* reserves                                                                *)
(***************************************************************************)
\* Width of the unsigned machine word of this section: the uint64 of the
\* source narrowed, so that every word value can be enumerated.  big.Int
\* values are the unbounded integers.
WordBits == 3
WordModulus == 2 ^ WordBits
Words == 0..(WordModulus - 1)

\* big.Int.Uint64: the low word of a non-negative big.Int
BigUint64(x) == x % WordModulus

\* calculateSwapAmount with the product taken in machine words, which wraps.
calculateSwapAmountWrapping(reserveOut, reserveIn, amountIn) ==
    IF (reserveIn + amountIn) % WordModulus = 0
    THEN [status |-> "panic"]
    ELSE [status |-> "ok",
          value |-> ((reserveOut * amountIn) % WordModulus)
                       \div ((reserveIn + amountIn) % WordModulus)]

\* calculateSwapAmount: numerator = reserveOut * amountIn and denominator =
\* reserveIn + amountIn as big.Int, result = numerator / denominator, which
\* panics ("division by zero") on a zero denominator; returns result.Uint64().
calculateSwapAmount(reserveOut, reserveIn, amountIn) ==
    LET numerator == reserveOut * amountIn
        denominator == reserveIn + amountIn
    IN  IF denominator = 0
        THEN [status |-> "panic"]
        ELSE [status |-> "ok", value |-> BigUint64(numerator \div denominator)]

QuoteInit ==
    /\ quoteArgs \in [reserveOut : Words, reserveIn : Words, a1 : Words, a2 : Words]
    /\ quotePc = "start"
    /\ quoteOut = <<>>

\* calculateSwapAmount(reserveOut, reserveIn, a1)
CalcFirst ==
    /\ quotePc = "start"
    /\ quoteOut' = <<calculateSwapAmount(quoteArgs.reserveOut, quoteArgs.reserveIn, quoteArgs.a1)>>
    /\ quotePc' = "first"
    /\ UNCHANGED quoteArgs

\* calculateSwapAmount(reserveOut, reserveIn, a2), a call of its own
CalcSecond ==
    /\ quotePc = "first"
    /\ quoteOut' = Append(quoteOut,
          calculateSwapAmount(quoteArgs.reserveOut, quoteArgs.reserveIn, quoteArgs.a2))
    /\ quotePc' = "second"
    /\ UNCHANGED quoteArgs

InitQuote == SwapIdle /\ ParseIdle /\ QuoteInit /\ SlipIdle /\ SubmitIdle /\ RestIdle

NextQuote ==
    \/ CalcFirst /\ UNCHANGED <<swapVars, parseVars, slipVars, submitVars, restVars>>
    \/ CalcSecond /\ UNCHANGED <<swapVars, parseVars, slipVars, submitVars, restVars>>

SpecQuote == InitQuote /\ [][NextQuote]_vars

(***************************************************************************)
(* Claims about calculateSwapAmount                                        *)
(***************************************************************************)
\* The amount of the n-th call.
AmountOfCall(n) == IF n = 1 THEN quoteArgs.a1 ELSE quoteArgs.a2

\* The n-th call returned floor(reserveOut * amountIn / (reserveIn + amountIn)).
ReturnedFloor(n) ==
    /\ quoteOut[n].status = "ok"
    /\ LET a == AmountOfCall(n)
       IN  /\ quoteOut[n].value * (quoteArgs.reserveIn + a) <= quoteArgs.reserveOut * a
           /\ (quoteOut[n].value + 1) * (quoteArgs.reserveIn + a) > quoteArgs.reserveOut * a

\* C5: for all reserves and every amountIn, amountIn = 0 and reserveIn = 0
\* included, calculateSwapAmount returns a value, and the value is
\* floor(reserveOut * amountIn / (reserveIn + amountIn)) with no overflow.
C5_AlwaysReturnsExactFloor ==
    \A n \in 1..Len(quoteOut) : ReturnedFloor(n)

\* C5 where reserveIn + amountIn is not zero; the call panics where it is.
C5_FloorUnlessZeroDenominator ==
    \A n \in 1..Len(quoteOut) :
        IF quoteArgs.reserveIn + AmountOfCall(n) = 0
        THEN quoteOut[n].status = "panic"
        ELSE ReturnedFloor(n)

\* A call that multiplies past the machine word and returns the exact floor.
C5_FloorWitness ==
    /\ Len(quoteOut) = 2
    /\ quoteArgs.reserveOut * quoteArgs.a2 >= WordModulus
    /\ quoteArgs.reserveIn > 0
    /\ quoteOut[2].status = "ok" /\ quoteOut[2].value > 1

\* The output is non-decreasing in amountIn over the calls that returned.
NonDecreasing ==
    Len(quoteOut) = 2 /\ quoteOut[1].status = "ok" /\ quoteOut[2].status = "ok"
        => /\ quoteArgs.a1 <= quoteArgs.a2 => quoteOut[1].value <= quoteOut[2].value
           /\ quoteArgs.a2 <= quoteArgs.a1 => quoteOut[2].value <= quoteOut[1].value

MaxInputLen == 3

\* The characters the enumerated lines are made of.
SlipAlphabet == {"0", "1", "5", ".", "-", "+", "%", " ", "n", "a"}

\* Lines of the specification and of src/test_phase3.sh, and lines that
\* exercise the special values of strconv.ParseFloat.
SlipExamples ==
    { <<"1", "0", "0">>, <<"1", "0", "1">>, <<"a", "b", "c">>,
      <<"0", ".", "5", "%">>, <<"2", ".", "5">>, <<"0", ".", "1">>,
      <<" ", "1", "0", "0", "%", " ">>, <<"1", "0", "0", ".", "0", "1">>,
      <<"9", "9", ".", "9", "9">>, <<"1", "%", "%">>, <<"5", " ", "%">>,
      <<"N", "a", "N">>, <<"n", "a", "n", "%">>, <<"+", "n", "a", "n">>,
      <<"i", "n", "f">>, <<"-", "I", "n", "f">>, <<"i", "n", "f", "i">>,
      <<"I", "n", "f", "i", "n", "i", "t", "y">> }

RECURSIVE StringsUpTo(_)
StringsUpTo(n) ==
    IF n = 0 THEN { <<>> }
    ELSE LET shorter == StringsUpTo(n - 1)
         IN  shorter \cup { Append(t, c) : t \in shorter, c \in SlipAlphabet }

\* unicode.IsSpace on the characters that occur
IsSpace(c) == c \in {" ", "\t", "\r", "\n"}

RECURSIVE TrimLeft(_)
TrimLeft(str) ==
    IF str # <<>> /\ IsSpace(Head(str)) THEN TrimLeft(Tail(str)) ELSE str

RECURSIVE TrimRight(_)
TrimRight(str) ==
    IF str # <<>> /\ IsSpace(str[Len(str)])
    THEN TrimRight(SubSeq(str, 1, Len(str) - 1))
    ELSE str

\* strings.TrimSpace
TrimSpace(str) == TrimRight(TrimLeft(str))

\* strings.TrimSuffix(s, "%"): one trailing "%" is removed, if there is one
TrimSuffixPercent(str) ==
    IF str # <<>> /\ str[Len(str)] = "%"
    THEN SubSeq(str, 1, Len(str) - 1)
    ELSE str

\* Lower case of the letters that occur.
ToLowerChar(c) ==
    CASE c = "N" -> "n" [] c = "A" -> "a" [] c = "I" -> "i" [] c = "F" -> "f"
      [] c = "T" -> "t" [] c = "Y" -> "y" [] OTHER -> c

ToLower(str) == [k \in 1..Len(str) |-> ToLowerChar(str[k])]

DigitChars == {"0", "1", "2", "3", "4", "5", "6", "7", "8", "9"}

DigitValue(c) ==
    CASE c = "0" -> 0 [] c = "1" -> 1 [] c = "2" -> 2 [] c = "3" -> 3 [] c = "4" -> 4
      [] c = "5" -> 5 [] c = "6" -> 6 [] c = "7" -> 7 [] c = "8" -> 8 [] c = "9" -> 9

\* The decimal digits of str, read as one integer; other characters skipped.
RECURSIVE DigitsValue(_)
DigitsValue(str) ==
    IF str = <<>> THEN 0
    ELSE LET last == str[Len(str)]
             rest == SubSeq(str, 1, Len(str) - 1)
         IN  IF last \in DigitChars
             THEN 10 * DigitsValue(rest) + DigitValue(last)
             ELSE DigitsValue(rest)

\* float64 values: a decimal number (-1)^neg * mant / 10^scale, NaN, or an
\* infinity.
Num(neg, mant, scale) == [kind |-> "num", neg |-> neg, mant |-> mant, scale |-> scale]
NaN == [kind |-> "nan", neg |-> FALSE, mant |-> 0, scale |-> 0]
Inf(neg) == [kind |-> "inf", neg |-> neg, mant |-> 0, scale |-> 0]
FloatZero == Num(FALSE, 0, 0)

\* The default slippage, 0.5
DefaultSlippage == Num(FALSE, 5, 1)

\* x < 0 and x > 100 on float64; every comparison with NaN is false, -0 is
\* not below 0.
LessThanZero(x) ==
    \/ x.kind = "inf" /\ x.neg
    \/ x.kind = "num" /\ x.neg /\ x.mant > 0

GreaterThan100(x) ==
    \/ x.kind = "inf" /\ ~x.neg
    \/ x.kind = "num" /\ ~x.neg /\ x.mant > 100 * 10 ^ x.scale

\* strconv.ParseFloat(s, 64) on strings without exponent, hexadecimal prefix
\* or underscore: "nan" without a sign and "inf" / "infinity" with an
\* optional sign, in any letter case; otherwise an optional sign, digits with
\* at most one point and at least one digit.  Anything else is a syntax error.
ParseFloat(str) ==
    LET low == ToLower(str)
        signed == low # <<>> /\ low[1] \in {"+", "-"}
        neg == low # <<>> /\ low[1] = "-"
        body == IF signed THEN Tail(low) ELSE low
        points == { k \in 1..Len(body) : body[k] = "." }
        digits == { k \in 1..Len(body) : body[k] \in DigitChars }
    IN  IF low = <<"n", "a", "n">> THEN [err |-> FALSE, value |-> NaN]
        ELSE IF body \in { <<"i", "n", "f">>, <<"i", "n", "f", "i", "n", "i", "t", "y">> }
        THEN [err |-> FALSE, value |-> Inf(neg)]
        ELSE IF /\ digits # {}
                /\ Cardinality(points) <= 1
                /\ digits \cup points = 1..Len(body)
        THEN [err |-> FALSE,
              value |-> Num(neg, DigitsValue(body),
                            IF points = {} THEN 0
                            ELSE Len(body) - (CHOOSE k \in points : TRUE))]
        ELSE [err |-> TRUE, value |-> FloatZero]

\* parseFloat of src/main.go
parseFloat(str) == ParseFloat(TrimSuffixPercent(TrimSpace(str)))


\* What standard input holds: the characters before the first line break or
\* the end of input, whether a line break follows them, and the reader the
\* program puts on it (bufio.Scanner in src/main.go, bufio.Reader in
\* src/main_working.go).
StdinSamples ==
    [reader : {"bufio.Scanner", "bufio.Reader"},
     line : StringsUpTo(MaxInputLen) \cup SlipExamples,
     newline : BOOLEAN]

SlipInit ==
    /\ stdin \in StdinSamples
    /\ input = <<>>
    /\ slipPc = "start"
    /\ slipRet = NoResult

SlipReturn(value) == [err |-> FALSE, value |-> value]
SlipError(by) == [err |-> TRUE, value |-> FloatZero, by |-> by]

\* src/main.go: scanner.Scan() is false at the end of input with nothing
\* read; input := strings.TrimSpace(scanner.Text()); default if empty
ScanInput ==
    /\ slipPc = "start"
    /\ stdin.reader = "bufio.Scanner"
    /\ IF stdin.line = <<>> /\ ~stdin.newline
       THEN /\ input' = input
            /\ slipRet' = SlipReturn(DefaultSlippage)
            /\ slipPc' = "returned"
       ELSE /\ input' = TrimSpace(stdin.line)
            /\ IF input' = <<>>
               THEN slipRet' = SlipReturn(DefaultSlippage) /\ slipPc' = "returned"
               ELSE slipRet' = slipRet /\ slipPc' = "parse"
    /\ UNCHANGED stdin

\* src/main_working.go: input, _ := reader.ReadString('\n');
\* input = strings.TrimSpace(input); default if empty
ReadInput ==
    /\ slipPc = "start"
    /\ stdin.reader = "bufio.Reader"
    /\ input' = TrimSpace(IF stdin.newline THEN Append(stdin.line, "\n") ELSE stdin.line)
    /\ IF input' = <<>>
       THEN slipRet' = SlipReturn(DefaultSlippage) /\ slipPc' = "returned"
       ELSE slipRet' = slipRet /\ slipPc' = "parse"
    /\ UNCHANGED stdin

\* slippage, err := parseFloat(input) (src/main.go) or
\* strconv.ParseFloat(strings.TrimSuffix(input, "%"), 64) (src/main_working.go),
\* then the range check
ParseAndValidate ==
    /\ slipPc = "parse"
    /\ LET r == IF stdin.reader = "bufio.Scanner"
                THEN parseFloat(input)
                ELSE ParseFloat(TrimSuffixPercent(input))
       IN  slipRet' = IF r.err THEN SlipError("invalid slippage value")
                      ELSE IF LessThanZero(r.value) \/ GreaterThan100(r.value)
                      THEN SlipError("slippage must be between 0 and 100")
                      ELSE SlipReturn(r.value)
    /\ slipPc' = "returned"
    /\ UNCHANGED <<stdin, input>>

InitSlippage == SwapIdle /\ ParseIdle /\ QuoteIdle /\ SlipInit /\ SubmitIdle /\ RestIdle

NextSlippage ==
    \/ ScanInput /\ UNCHANGED <<swapVars, parseVars, quoteVars, submitVars, restVars>>
    \/ ReadInput /\ UNCHANGED <<swapVars, parseVars, quoteVars, submitVars, restVars>>
    \/ ParseAndValidate /\ UNCHANGED <<swapVars, parseVars, quoteVars, submitVars, restVars>>

SpecSlippage == InitSlippage /\ [][NextSlippage]_vars

(***************************************************************************)
(* Claims about getSlippageFromUser                                        *)
(***************************************************************************)
\* x is a number of the interval [0, 100].
InZeroToHundred(x) ==
    /\ x.kind = "num"
    /\ x.mant = 0 \/ ~x.neg
    /\ x.mant <= 100 * 10 ^ x.scale

\* What the line is once white space and one trailing "%" are trimmed.
TrimmedLine == TrimSuffixPercent(TrimSpace(stdin.line))

\* The trimmed line parses as a number of [0, 100].
ParsesInRange ==
    LET p == ParseFloat(TrimmedLine)
    IN  ~p.err /\ InZeroToHundred(p.value)

\* The trimmed line is "nan" in some letter case.
ParsesAsNaN ==
    LET p == ParseFloat(TrimmedLine)
    IN  ~p.err /\ p.value.kind = "nan"

\* C7: the input is accepted exactly when, trimmed of white space and of one
\* trailing "%", it parses as a number s with 0 <= s <= 100; empty input and
\* end of input give the default 0.5; every value returned without an error
\* lies in [0, 100].
C7_AcceptedIffInZeroToHundred ==
    slipPc = "returned" =>
        /\ IF TrimSpace(stdin.line) = <<>>
           THEN slipRet = SlipReturn(DefaultSlippage)
           ELSE ~slipRet.err <=> ParsesInRange
        /\ ~slipRet.err => InZeroToHundred(slipRet.value)

\* C7 with the lines that parse as NaN set apart: they are accepted too, and
\* NaN is returned.
C7_AcceptedIffInRangeOrNaN ==
    slipPc = "returned" =>
        /\ IF TrimSpace(stdin.line) = <<>>
           THEN slipRet = SlipReturn(DefaultSlippage)
           ELSE ~slipRet.err <=> (ParsesInRange \/ ParsesAsNaN)
        /\ ~slipRet.err => IF ParsesAsNaN THEN slipRet.value = NaN
                           ELSE InZeroToHundred(slipRet.value)

\* The line "0.5%" accepted as 0.5.
C7_AcceptWitness ==
    /\ slipPc = "returned"
    /\ stdin.line = <<"0", ".", "5", "%">>
    /\ slipRet = SlipReturn(Num(FALSE, 5, 1))

\* The line "101" rejected by the range check.
C7_RejectWitness ==
    /\ slipPc = "returned"
    /\ stdin.line = <<"1", "0", "1">>
    /\ slipRet = SlipError("slippage must be between 0 and 100")

\* The line "NaN" accepted.
C7_NaNWitness ==
    /\ slipPc = "returned"
    /\ stdin.line = <<"N", "a", "N">>
    /\ slipRet = SlipReturn(NaN)


(***************************************************************************)
(* SpecSubmit: executeSwap from the signed transaction to its return, and  *)
(* the same stretch of ExecuteRaydiumSwap                                  *)
(***************************************************************************)
\* Error messages are sequences of fragments; the nil error is the empty one.
NoError == <<>>

SigVerifyPhrase == "Transaction signature verification failure"

\* strings.Contains(err.Error(), phrase)
Contains(msg, phrase) == \E k \in 1..Len(msg) : msg[k] = phrase

\* fmt.Errorf("failed to send transaction: %w", err)
WrapSendError(err) == <<"failed to send transaction: ">> \o err

\* A retry decision that takes every error for a signature failure.
RetryOnAnyError(err) == TRUE

\* The condition under which executeSwap submits again.
IsSignatureVerificationFailure(err) == Contains(err, SigVerifyPhrase)

\* Errors SendTransactionWithOpts may return.
SendErrorSamples ==
    { <<SigVerifyPhrase>>,
      <<"rpc error: ", SigVerifyPhrase>>,
      <<"(-32002) ", SigVerifyPhrase, " [0 log messages]">>,
      <<"transaction signature verification failure">>,
      <<"Blockhash not found">>,
      <<"Transaction simulation failed: ", "custom program error: 0x1e">> }

\* Signatures the node may answer with.
Signatures == { <<"signature", 1>>, <<"signature", 2>> }
ZeroSignature == <<"signature", 0>>

\* solana.Signature.String(): the base58 text of the signature
SigString(sig) == <<"base58", sig>>

\* What SendTransactionWithOpts returns: (sig, err)
SendResults ==
    { [sig |-> sg, err |-> NoError] : sg \in Signatures }
        \cup { [sig |-> ZeroSignature, err |-> e] : e \in SendErrorSamples }

\* What GetSignatureStatuses returns: (status, err), status possibly nil, its
\* Value possibly empty, its first entry possibly nil.
NilPtr == [nil |-> TRUE]
StatusOf(entries) == [nil |-> FALSE, Value |-> entries]
EntryOf(cs) == [nil |-> FALSE, ConfirmationStatus |-> cs]

StatusResults ==
    { [err |-> TRUE,  status |-> NilPtr],
      [err |-> FALSE, status |-> NilPtr],
      [err |-> FALSE, status |-> StatusOf(<<>>)],
      [err |-> FALSE, status |-> StatusOf(<<NilPtr>>)],
      [err |-> FALSE, status |-> StatusOf(<<EntryOf("processed")>>)],
      [err |-> FALSE, status |-> StatusOf(<<EntryOf("confirmed")>>)],
      [err |-> FALSE, status |-> StatusOf(<<EntryOf("finalized")>>)] }

\* A loop test that leaves on "confirmed" only.
BreaksOnConfirmedOnly(r) ==
    /\ ~r.err
    /\ ~r.status.nil
    /\ Len(r.status.Value) > 0
    /\ ~r.status.Value[1].nil
    /\ r.status.Value[1].ConfirmationStatus = "confirmed"

\* The test under which the confirmation loop breaks: no error, a status
\* with a first entry, and that entry confirmed or finalized.
BreaksLoop(r) ==
    /\ ~r.err
    /\ ~r.status.nil
    /\ Len(r.status.Value) > 0
    /\ ~r.status.Value[1].nil
    /\ r.status.Value[1].ConfirmationStatus \in {"confirmed", "finalized"}

maxRetries == 30

\* A return that reports an unconfirmed transaction as an error.
ReturnErrorUnlessConfirmed(sig, confirmed) ==
    IF confirmed
    THEN [by |-> "executeSwap", sig |-> SigString(sig), err |-> NoError]
    ELSE [by |-> "executeSwap", sig |-> <<>>, err |-> <<"transaction not confirmed">>]

\* return sig.String(), nil
ReturnAfterPoll(sig, confirmed) ==
    [by |-> "executeSwap", sig |-> SigString(sig), err |-> NoError]

\* return "", fmt.Errorf("failed to send transaction: %w", err)
ReturnSendError(err) ==
    [by |-> "executeSwap", sig |-> <<>>, err |-> WrapSendError(err)]

SubmitInit ==
    /\ sendPc \in {"signed", "raydiumSigned"}
    /\ sends = <<>>
    /\ sendErr = NoError
    /\ i = 0
    /\ sleeps = 0
    /\ polls = 0
    /\ lastStatus = NoResult
    /\ finalAt = 0
    /\ execRet = NoResult


\* The entry a submission leaves in sends.
Submission(skipPreflight, r) ==
    [SkipPreflight |-> skipPreflight, sig |-> r.sig, err |-> r.err]

\* sig, err := client.SendTransactionWithOpts(.. SkipPreflight: false ..) and
\* the branch on err that follows it
SendWithPreflight ==
    /\ sendPc = "signed"
    /\ \E r \in SendResults :
          /\ sends' = Append(sends, Submission(FALSE, r))
          /\ sendErr' = r.err
          /\ IF r.err = NoError
             THEN sendPc' = "loop" /\ execRet' = execRet
             ELSE IF IsSignatureVerificationFailure(r.err)
             THEN sendPc' = "retry" /\ execRet' = execRet
             ELSE sendPc' = "returned" /\ execRet' = ReturnSendError(r.err)
    /\ UNCHANGED <<i, sleeps, polls, lastStatus, finalAt>>

\* sig, err = client.SendTransactionWithOpts(.. SkipPreflight: true ..)
SendWithoutPreflight ==
    /\ sendPc = "retry"
    /\ \E r \in SendResults :
          /\ sends' = Append(sends, Submission(TRUE, r))
          /\ sendErr' = r.err
          /\ IF r.err = NoError
             THEN sendPc' = "loop" /\ execRet' = execRet
             ELSE sendPc' = "returned" /\ execRet' = ReturnSendError(r.err)
    /\ UNCHANGED <<i, sleeps, polls, lastStatus, finalAt>>

\* i < maxRetries; time.Sleep(1 * time.Second)
LoopSleep ==
    /\ sendPc = "loop"
    /\ i < maxRetries
    /\ sleeps' = sleeps + 1
    /\ sendPc' = "query"
    /\ UNCHANGED <<sends, sendErr, i, polls, lastStatus, finalAt, execRet>>

\* The answer is a status of the confirmed or finalized tier.
AtConfirmedTier(r) ==
    \E cs \in {"confirmed", "finalized"} :
        r = [err |-> FALSE, status |-> StatusOf(<<EntryOf(cs)>>)]

\* status, err := client.GetSignatureStatuses(ctx, false, sig); continue on an
\* error, break on confirmed or finalized, i++ otherwise.  finalAt records
\* the first query answered at the confirmed tier.
QueryStatus ==
    /\ sendPc = "query"
    /\ \E r \in StatusResults :
          /\ polls' = polls + 1
          /\ lastStatus' = r
          /\ finalAt' = IF finalAt = 0 /\ AtConfirmedTier(r) THEN polls + 1 ELSE finalAt
          /\ IF BreaksLoop(r)
             THEN sendPc' = "done" /\ i' = i
             ELSE sendPc' = "loop" /\ i' = i + 1
    /\ UNCHANGED <<sends, sendErr, sleeps, execRet>>

\* The loop is left by break or by i = maxRetries; return sig.String(), nil
ReturnSignature ==
    /\ sendPc = "done" \/ (sendPc = "loop" /\ i >= maxRetries)
    /\ execRet' = ReturnAfterPoll(sends[Len(sends)].sig, sendPc = "done")
    /\ sendPc' = "returned"
    /\ UNCHANGED <<sends, sendErr, i, sleeps, polls, lastStatus, finalAt>>

\* ExecuteRaydiumSwap: one submission with preflight; its error is returned
RaydiumSend ==
    /\ sendPc = "raydiumSigned"
    /\ \E r \in SendResults :
          /\ sends' = Append(sends, Submission(FALSE, r))
          /\ sendErr' = r.err
          /\ IF r.err = NoError
             THEN sendPc' = "raydiumWait" /\ execRet' = execRet
             ELSE /\ sendPc' = "returned"
                  /\ execRet' = [by |-> "ExecuteRaydiumSwap", sig |-> <<>>, err |-> r.err]
    /\ UNCHANGED <<i, sleeps, polls, lastStatus, finalAt>>

\* ExecuteRaydiumSwap: time.Sleep(2 * time.Second); return sig.String(), nil
RaydiumWait ==
    /\ sendPc = "raydiumWait"
    /\ sleeps' = sleeps + 2
    /\ execRet' = [by |-> "ExecuteRaydiumSwap",
                   sig |-> SigString(sends[Len(sends)].sig), err |-> NoError]
    /\ sendPc' = "returned"
    /\ UNCHANGED <<sends, sendErr, i, polls, lastStatus, finalAt>>

InitSubmit == SwapIdle /\ ParseIdle /\ QuoteIdle /\ SlipIdle /\ SubmitInit /\ RestIdle

NextSubmit ==
    \/ SendWithPreflight /\ UNCHANGED <<swapVars, parseVars, quoteVars, slipVars, restVars>>
    \/ SendWithoutPreflight /\ UNCHANGED <<swapVars, parseVars, quoteVars, slipVars, restVars>>
    \/ LoopSleep /\ UNCHANGED <<swapVars, parseVars, quoteVars, slipVars, restVars>>
    \/ QueryStatus /\ UNCHANGED <<swapVars, parseVars, quoteVars, slipVars, restVars>>
    \/ ReturnSignature /\ UNCHANGED <<swapVars, parseVars, quoteVars, slipVars, restVars>>
    \/ RaydiumSend /\ UNCHANGED <<swapVars, parseVars, quoteVars, slipVars, restVars>>
    \/ RaydiumWait /\ UNCHANGED <<swapVars, parseVars, quoteVars, slipVars, restVars>>

SpecSubmit == InitSubmit /\ [][NextSubmit]_vars

\* The function runs to its return: no step of it waits on anything but the
\* answer of a call or a timer.
SpecSubmitFair == InitSubmit /\ [][NextSubmit]_vars /\ WF_vars(NextSubmit)

(***************************************************************************)
(* Claims about the submission and the confirmation loop of executeSwap    *)
(***************************************************************************)
\* The run is one of executeSwap.
InExecuteSwap ==
    \/ sendPc \in {"signed", "retry", "loop", "query", "done"}
    \/ sendPc = "returned" /\ execRet.by = "executeSwap"

\* Some submission of the run succeeded.
SubmissionSucceeded == sends # <<>> /\ sends[Len(sends)].err = NoError

ReturnedWithError == sendPc = "returned" /\ execRet.err # NoError /\ polls = 0

\* C8: the first submission has preflight enabled; a second one, with
\* preflight disabled, is made if and only if the first failed with an error
\* of the signature-verification class, and only once; any other failure of
\* the first and any failure of the second is returned as an error at once;
\* no run submits more than twice.
C8_PreflightThenOneRetry ==
    InExecuteSwap =>
        /\ Len(sends) <= 2
        /\ Len(sends) >= 1 => ~sends[1].SkipPreflight
        /\ Len(sends) = 2 =>
              sends[2].SkipPreflight /\ Contains(sends[1].err, SigVerifyPhrase)
        /\ Len(sends) >= 1 /\ Contains(sends[1].err, SigVerifyPhrase) =>
              Len(sends) = 2 \/ sendPc = "retry"
        /\ sendPc = "retry" => Len(sends) = 1 /\ execRet = NoResult
        /\ Len(sends) = 1 /\ sends[1].err # NoError
              /\ ~Contains(sends[1].err, SigVerifyPhrase) => ReturnedWithError
        /\ Len(sends) = 2 /\ sends[2].err # NoError => ReturnedWithError

\* A second submission, without preflight, after a signature failure.
C8_Witness ==
    /\ sendPc = "loop"
    /\ Len(sends) = 2
    /\ sends[1].err = <<"rpc error: ", SigVerifyPhrase>>
    /\ sends[2].SkipPreflight /\ sends[2].err = NoError

\* What holds of the confirmation loop in every state.
PollInvariant ==
    InExecuteSwap =>
        /\ polls <= 30
        /\ sleeps = polls + (IF sendPc = "query" THEN 1 ELSE 0)
        /\ polls > 0 => SubmissionSucceeded
        /\ finalAt # 0 => polls = finalAt /\ sendPc \in {"done", "returned"}
        /\ finalAt = 0 => i = polls
        /\ sendPc = "returned" /\ SubmissionSucceeded /\ finalAt = 0 => polls = 30

\* C9: after a successful submission the status is queried at most 30 times,
\* each query after a one-second wait; no query follows one that returned
\* confirmed or finalized; any other answer, and a failed query, uses up one
\* of the 30 attempts, and the loop terminates.
C9_AtMost30PollsThenReturn ==
    []PollInvariant /\ <>(sendPc = "returned")

\* A run that went on polling through failed and unconfirmed answers and
\* stopped at a finalized one.
C9_Witness ==
    /\ sendPc = "done"
    /\ polls = 17 /\ sleeps = 17 /\ i = 16
    /\ finalAt = 17
    /\ lastStatus.status.Value[1].ConfirmationStatus = "finalized"

\* C10: once a submission has succeeded, executeSwap returns the transaction
\* id and no error, whether the loop stopped on confirmed or finalized, used
\* all its 30 attempts, or every query failed.
C10_ReturnsIdAfterSuccessfulSubmission ==
    InExecuteSwap /\ sendPc = "returned" /\ SubmissionSucceeded =>
        /\ execRet.err = NoError
        /\ execRet.sig = SigString(sends[Len(sends)].sig)

\* A return after 30 attempts whose last query failed and none confirmed.
C10_Witness ==
    /\ sendPc = "returned" /\ execRet.by = "executeSwap"
    /\ polls = 30 /\ finalAt = 0
    /\ lastStatus.err
    /\ execRet.err = NoError
    /\ execRet.sig = SigString(<<"signature", 2>>)


(***************************************************************************)
(* SpecBuild: executeSwap from the decoded pool to the transaction: the    *)
(* token accounts, the wrap, the swap instruction and the close            *)
(***************************************************************************)
\* A token mint that is neither SOL_MINT nor WSOL_MINT, and another.
TOKEN_MINT == Key(6)
OTHER_MINT == Key(7)
\* The wallet's public key.
WalletKey == Key(8)

\* solana.FindAssociatedTokenAddress(wallet, mint): a derived address
AtaOf(wallet, mint) == <<"ata", wallet, mint>>

\* The nil instruction.
NilIx == [kind |-> "nil"]

\* associatedtokenaccount.NewCreateInstruction(payer, wallet, mint).Build()
CreateATAIx(payer, wallet, mint) ==
    [kind |-> "create-ata", payer |-> payer, wallet |-> wallet, mint |-> mint]

\* system.NewTransferInstruction(lamports, from, to).Build()
TransferIx(lamports, from, to) ==
    [kind |-> "transfer", lamports |-> lamports, from |-> from, to |-> to]

\* token.NewSyncNativeInstruction(account).Build()
SyncNativeIx(account) == [kind |-> "sync-native", account |-> account]

\* token.NewCloseAccountInstruction(account, destination, owner, []).Build()
CloseAccountIx(account, destination, owner) ==
    [kind |-> "close-account", account |-> account,
     destination |-> destination, owner |-> owner]

\* What getOrCreateATA meets: the address cannot be derived, GetAccountInfo
\* fails, answers nil, answers without a value, or finds the account.
AtaResults == {"finderr", "rpcerr", "nilinfo", "nilvalue", "exists"}

\* What a getOrCreateATA call can meet when the account is on the ledger and
\* when it is not: GetAccountInfo finds an account only if there is one, and
\* answers without one only if there is none.
AtaOutcomes(exists) ==
    { r \in AtaResults : /\ r = "exists" => exists
                         /\ r \in {"nilinfo", "nilvalue"} => ~exists }

\* getOrCreateATA: (ata, instruction, error); the instruction is nil when the
\* account exists.
getOrCreateATA(wallet, mint, r) ==
    IF r = "finderr"
    THEN [err |-> TRUE, ata |-> Key(0), ix |-> NilIx]
    ELSE IF r \in {"rpcerr", "nilinfo", "nilvalue"}
    THEN [err |-> FALSE, ata |-> AtaOf(wallet, mint), ix |-> CreateATAIx(wallet, wallet, mint)]
    ELSE [err |-> FALSE, ata |-> AtaOf(wallet, mint), ix |-> NilIx]

\* The direction executeSwap works out from the pool and the side.
SwapDirection(pool, sd) ==
    IF sd = "buy"
    THEN IF IsBaseSol(pool)
         THEN [sourceMint |-> pool.BaseMint, destinationMint |-> pool.QuoteMint,
               isBaseToQuote |-> TRUE, inputDecimals |-> SOL_DECIMALS]
         ELSE [sourceMint |-> pool.QuoteMint, destinationMint |-> pool.BaseMint,
               isBaseToQuote |-> FALSE, inputDecimals |-> SOL_DECIMALS]
    ELSE IF IsBaseSol(pool)
         THEN [sourceMint |-> pool.QuoteMint, destinationMint |-> pool.BaseMint,
               isBaseToQuote |-> FALSE, inputDecimals |-> pool.QuoteDecimals]
         ELSE [sourceMint |-> pool.BaseMint, destinationMint |-> pool.QuoteMint,
               isBaseToQuote |-> TRUE, inputDecimals |-> pool.BaseDecimals]

\* A wrap that syncs before it transfers.
WrapInstructionsSyncFirst(amountInRaw, wallet, sourceATA) ==
    << SyncNativeIx(sourceATA), TransferIx(amountInRaw, wallet, sourceATA) >>

\* transferIx, then syncIx
WrapInstructions(amountInRaw, wallet, sourceATA) ==
    << TransferIx(amountInRaw, wallet, sourceATA), SyncNativeIx(sourceATA) >>

\* A wrap for either form of the native mint.
NeedsWrapAnyNative(sourceMint, sd) == sourceMint \in {WSOL_MINT, SOL_MINT} /\ sd = "buy"

\* sourceMint.Equals(WSOL_MINT) && side == "buy"
NeedsWrap(sourceMint, sd) == sourceMint = WSOL_MINT /\ sd = "buy"

\* A close that is always added.
NeedsCloseAlways(destinationMint, sd) == TRUE

\* A close for either form of the native mint.
NeedsCloseAnyNative(destinationMint, sd) == destinationMint \in {WSOL_MINT, SOL_MINT} /\ sd = "sell"

\* destinationMint.Equals(WSOL_MINT) && side == "sell"
NeedsClose(destinationMint, sd) == destinationMint = WSOL_MINT /\ sd = "sell"

\* The instruction, or nothing when it is nil.
IfNotNil(ix) == IF ix = NilIx THEN <<>> ELSE <<ix>>

\* A decoded pool with its mints and decimals set.
BuildPoolSample(base, quote, market, marketProgram) ==
    LET p == OnChainPoolSample(0, market, marketProgram)
    IN  [NewOnChainPool(p.Address) EXCEPT
            !.BaseMint = base, !.QuoteMint = quote,
            !.BaseDecimals = 6, !.QuoteDecimals = 5,
            !.BaseVault = p.BaseVault, !.QuoteVault = p.QuoteVault,
            !.Authority = p.Authority, !.OpenOrders = p.OpenOrders,
            !.TargetOrders = p.TargetOrders,
            !.MarketProgram = p.MarketProgram, !.Market = p.Market,
            !.MarketBids = p.MarketBids, !.MarketAsks = p.MarketAsks,
            !.MarketEventQueue = p.MarketEventQueue,
            !.MarketBaseVault = p.MarketBaseVault,
            !.MarketQuoteVault = p.MarketQuoteVault]

\* The pairs of mints of the sample pools: the native asset, wrapped or not,
\* as base or as quote, and a pool without it.
MintPairs ==
    { <<WSOL_MINT, TOKEN_MINT>>, <<SOL_MINT, TOKEN_MINT>>,
      <<TOKEN_MINT, WSOL_MINT>>, <<TOKEN_MINT, SOL_MINT>>,
      <<TOKEN_MINT, OTHER_MINT>> }

\* amountInRaw is the value of uint64(amountIn * 10^inputDecimals), taken as
\* given in this specification.
BuildArgsSamples ==
    { [pool |-> BuildPoolSample(mp[1], mp[2], m, prog),
       side |-> sd,
       wallet |-> WalletKey,
       amountInRaw |-> <<51712, 15258, 0, 0>>,
       minAmountOut |-> <<513, 1027, 0, 0>>] :
         mp \in MintPairs, m \in {Key(0), Key(10)},
         prog \in {OPENBOOK_PROGRAM, Key(11)}, sd \in {"buy", "sell"} }

BuildInit ==
    /\ buildArgs \in BuildArgsSamples
    /\ buildPc = "source"
    /\ instructions = <<>>
    /\ ataQueries = <<>>
    /\ buildRet = NoResult

BuildError(msg) == [status |-> "err", err |-> msg]

\* sourceATA, createSourceIx, err := getOrCreateATA(.. sourceMint), and the
\* wrap of the native asset that follows it
BuildSource ==
    /\ buildPc = "source"
    /\ \E exists \in BOOLEAN : \E r \in AtaOutcomes(exists) :
          LET d == SwapDirection(buildArgs.pool, buildArgs.side)
              src == getOrCreateATA(buildArgs.wallet, d.sourceMint, r)
          IN  /\ ataQueries' = Append(ataQueries,
                     [mint |-> d.sourceMint, exists |-> exists, answer |-> r])
              /\ IF src.err
                 THEN /\ buildRet' = BuildError("failed to get source ATA")
                      /\ buildPc' = "returned"
                      /\ instructions' = instructions
                 ELSE /\ instructions' =
                           instructions \o IfNotNil(src.ix)
                             \o (IF NeedsWrap(d.sourceMint, buildArgs.side)
                                 THEN WrapInstructions(buildArgs.amountInRaw,
                                                       buildArgs.wallet, src.ata)
                                 ELSE <<>>)
                      /\ buildPc' = "destination"
                      /\ buildRet' = buildRet
    /\ UNCHANGED buildArgs

\* destinationATA, createDestIx, err := getOrCreateATA(.. destinationMint),
\* then createSwapInstruction and the close of a wrapped destination
BuildDestinationAndSwap ==
    /\ buildPc = "destination"
    /\ \E exists \in BOOLEAN : \E r \in AtaOutcomes(exists) :
          LET d == SwapDirection(buildArgs.pool, buildArgs.side)
              sourceATA == AtaOf(buildArgs.wallet, d.sourceMint)
              dst == getOrCreateATA(buildArgs.wallet, d.destinationMint, r)
              withDest == instructions \o IfNotNil(dst.ix)
              swap == createSwapInstruction(buildArgs.pool, sourceATA, dst.ata,
                          buildArgs.wallet, buildArgs.amountInRaw,
                          buildArgs.minAmountOut, d.isBaseToQuote, offCurve)
          IN  /\ ataQueries' = Append(ataQueries,
                     [mint |-> d.destinationMint, exists |-> exists, answer |-> r])
              /\ IF dst.err
                 THEN /\ buildRet' = BuildError("failed to get destination ATA")
                      /\ buildPc' = "returned"
                      /\ instructions' = instructions
                 ELSE IF swap.status = "err"
                 THEN /\ buildRet' = BuildError("failed to create swap instruction")
                      /\ buildPc' = "returned"
                      /\ instructions' = withDest
                 ELSE /\ instructions' =
                           withDest \o <<swap>>
                             \o (IF NeedsClose(d.destinationMint, buildArgs.side)
                                 THEN <<CloseAccountIx(dst.ata, buildArgs.wallet,
                                                       buildArgs.wallet)>>
                                 ELSE <<>>)
                      /\ buildPc' = "blockhash"
                      /\ buildRet' = buildRet
    /\ UNCHANGED buildArgs

\* client.GetLatestBlockhash, solana.NewTransaction and tx.Sign
BuildTransaction ==
    /\ buildPc = "blockhash"
    /\ \E r \in {"rpcerr", "txerr", "signerr", "ok"} :
          IF r = "ok"
          THEN /\ buildRet' = [status |-> "tx", instructions |-> instructions,
                               payer |-> buildArgs.wallet]
               /\ buildPc' = "signed"
          ELSE /\ buildRet' = BuildError(
                     IF r = "rpcerr" THEN "failed to get latest blockhash"
                     ELSE IF r = "txerr" THEN "failed to create transaction"
                     ELSE "failed to sign transaction")
               /\ buildPc' = "returned"
    /\ UNCHANGED <<buildArgs, instructions, ataQueries>>

InitBuild ==
    /\ swapArgs = NoResult /\ swapIx = NoResult
    /\ offCurve \in OffCurveChoices
    /\ ParseIdle /\ QuoteIdle /\ SlipIdle /\ SubmitIdle
    /\ BuildInit
    /\ IdleExceptBuild

NextBuild ==
    \/ BuildSource /\ UNCHANGED <<swapVars, parseVars, quoteVars, slipVars, submitVars, exceptBuild>>
    \/ BuildDestinationAndSwap /\ UNCHANGED <<swapVars, parseVars, quoteVars, slipVars, submitVars, exceptBuild>>
    \/ BuildTransaction /\ UNCHANGED <<swapVars, parseVars, quoteVars, slipVars, submitVars, exceptBuild>>

SpecBuild == InitBuild /\ [][NextBuild]_vars


(***************************************************************************)
(* Claims about the instruction list of executeSwap                        *)
(***************************************************************************)
\* The direction of the run.
BuildDirection == SwapDirection(buildArgs.pool, buildArgs.side)

\* What the k-th instruction of the list is for.
RoleOf(k) ==
    LET ix == instructions[k]
    IN  IF "kind" \notin DOMAIN ix THEN "swap"
        ELSE IF ix.kind = "create-ata"
        THEN IF ix.mint = BuildDirection.sourceMint
             THEN "create-source" ELSE "create-destination"
        ELSE ix.kind

\* The place of a role in [create-source, transfer, sync, create-destination,
\* swap, close].
PlaceOf(role) ==
    CASE role = "create-source" -> 1
      [] role = "transfer" -> 2
      [] role = "sync-native" -> 3
      [] role = "create-destination" -> 4
      [] role = "swap" -> 5
      [] role = "close-account" -> 6

\* The list is complete: it goes into the transaction or is in it.
ListComplete == buildPc \in {"blockhash", "signed"}

SwapPlaces == { k \in 1..Len(instructions) : RoleOf(k) = "swap" }

\* The list is a selection from the six roles that keeps their order.
OrderPreservingSelection ==
    \A j, k \in 1..Len(instructions) :
        j < k => PlaceOf(RoleOf(j)) < PlaceOf(RoleOf(k))

\* C11: the instruction list of the transaction is an order-preserving
\* selection from [create-source, transfer, sync, create-destination, swap,
\* close]; it holds the swap exactly once, every create, transfer and sync
\* before the swap, a close only as the last instruction, and transfer and
\* sync only together, the sync right after the transfer.
C11_InstructionListOrder ==
    ListComplete =>
        /\ OrderPreservingSelection
        /\ Cardinality(SwapPlaces) = 1
        /\ \A k \in 1..Len(instructions) :
              /\ RoleOf(k) \in {"create-source", "transfer", "sync-native",
                                "create-destination"}
                    => \A sw \in SwapPlaces : k < sw
              /\ RoleOf(k) = "close-account" => k = Len(instructions)
              /\ RoleOf(k) = "transfer" =>
                    k < Len(instructions) /\ RoleOf(k + 1) = "sync-native"
              /\ RoleOf(k) = "sync-native" => k > 1 /\ RoleOf(k - 1) = "transfer"
        /\ buildPc = "signed" => buildRet.instructions = instructions

\* A buy through a pool with the wrapped native asset as base, neither token
\* account existing: both creates, the wrap and the swap.
C11_Witness ==
    /\ buildPc = "signed"
    /\ buildArgs.side = "buy"
    /\ [k \in 1..Len(instructions) |-> RoleOf(k)] =
          <<"create-source", "transfer", "sync-native", "create-destination", "swap">>

\* The run sells an asset that is not the wrapped native one.
SellOfOtherAsset ==
    buildArgs.side = "sell" /\ BuildDirection.sourceMint # WSOL_MINT

Roles == { RoleOf(k) : k \in 1..Len(instructions) }

\* C12 as stated: for a sell whose source is not the wrapped native asset
\* the list is [optional create-source], [swap], [optional close] and
\* nothing else.
C12_SellListSourceSwapClose ==
    ListComplete /\ SellOfOtherAsset =>
        /\ OrderPreservingSelection
        /\ Cardinality(SwapPlaces) = 1
        /\ Roles \subseteq {"create-source", "swap", "close-account"}

\* C12 amended: for a sell whose source is not the wrapped native asset the
\* list is [optional create-source], [optional create-destination], [swap],
\* [optional close], with no transfer and no sync; the close is there
\* exactly when the destination is the wrapped native asset.
C12_SellListWithDestinationCreate ==
    ListComplete /\ SellOfOtherAsset =>
        /\ OrderPreservingSelection
        /\ Cardinality(SwapPlaces) = 1
        /\ Roles \subseteq {"create-source", "create-destination", "swap", "close-account"}
        /\ "close-account" \in Roles <=> BuildDirection.destinationMint = WSOL_MINT

\* A sell into the wrapped native asset with neither token account existing.
C12_Witness ==
    /\ buildPc = "signed"
    /\ SellOfOtherAsset
    /\ [k \in 1..Len(instructions) |-> RoleOf(k)] =
          <<"create-source", "create-destination", "swap", "close-account">>


(***************************************************************************)
(* SpecMain: one invocation of main, from the command line to the exit.    *)
(* The calls main makes are taken by their outcome; events records what    *)
(* the run did.                                                            *)
(***************************************************************************)
\* The command lines: -pool and -token given or not, -amount zero or not,
\* -side missing, valid or not, -execute set or not.
FlagSamples ==
    [poolAddr : {"", "GivenPool"},
     tokenAddr : {"", "GivenToken"},
     amount : {0, 1},
     side : {"", "buy", "sell", "hold"},
     execute : BOOLEAN]

MainInit ==
    /\ flags \in FlagSamples
    /\ mainPc = "start"
    /\ poolAddress = ""
    /\ mainPool = NoResult
    /\ minOut = NoResult
    /\ events = <<>>
    /\ exitStatus = "running"

\* log.Fatal, log.Fatalf: the process exits at once
Fatal == mainPc' = "exited" /\ exitStatus' = "fatal"

\* The command line passes the three checks of main.
ArgumentsAccepted ==
    /\ ~(flags.amount = 0 \/ flags.side = "")
    /\ ~(flags.poolAddr = "" /\ flags.tokenAddr = "")
    /\ flags.side \in {"buy", "sell"}

\* flag.Parse, the checks of the arguments and loadWallet
ParseFlags ==
    /\ mainPc = "start"
    /\ \E wallet \in {"unset", "badkey", "ok"} :
          /\ IF flags.amount = 0 \/ flags.side = ""
             THEN mainPc' = "exited" /\ exitStatus' = "usage"
             ELSE IF flags.poolAddr = "" /\ flags.tokenAddr = ""
             THEN Fatal
             ELSE IF flags.side # "buy" /\ flags.side # "sell"
             THEN Fatal
             ELSE IF flags.execute /\ wallet # "ok"
             THEN Fatal
             ELSE /\ mainPc' = IF flags.tokenAddr # "" THEN "discover" ELSE "quote"
                  /\ exitStatus' = exitStatus
          /\ events' = IF ArgumentsAccepted /\ flags.execute
                        THEN Append(events, [what |-> "wallet", loaded |-> wallet = "ok"])
                        ELSE events
    /\ poolAddress' = IF mainPc' = "quote" THEN flags.poolAddr ELSE poolAddress
    /\ UNCHANGED <<flags, mainPool, minOut>>

\* pool, err := findPoolsOnChain(ctx, client, tokenAddr)
Discover ==
    /\ mainPc = "discover"
    /\ \E found \in {"err", "FoundPool"} :
          IF found = "err"
          THEN Fatal /\ poolAddress' = poolAddress
          ELSE mainPc' = "quote" /\ poolAddress' = found /\ exitStatus' = exitStatus
    /\ events' = Append(events, [what |-> "scan", token |-> flags.tokenAddr])
    /\ UNCHANGED <<flags, mainPool, minOut>>

\* The outcomes of the fetches that calculateQuoteOnChain and executeSwap
\* make before they use the pool: the address does not parse, the account
\* is not fetched or not decoded, a decimal count or the vault balances are
\* not fetched, or all succeed.
PoolFetchOutcomes == {"addrerr", "accterr", "parseerr", "decerr", "vaulterr", "ok"}

\* The events a failed fetch leaves.
FetchEvents(by, outcome) ==
    IF outcome = "decerr" THEN <<[what |-> "decimals-failed", by |-> by]>>
    ELSE IF outcome = "vaulterr" THEN <<[what |-> "vault-failed", by |-> by]>>
    ELSE <<>>

\* quote, err := calculateQuoteOnChain(..); log.Fatal(err) on an error; the
\* run ends here without -execute
Quote ==
    /\ mainPc = "quote"
    /\ \E outcome \in PoolFetchOutcomes :
          IF outcome = "ok"
          THEN /\ events' = Append(events, [what |-> "quote", pool |-> poolAddress])
               /\ IF flags.execute
                  THEN mainPc' = "confirm" /\ exitStatus' = exitStatus
                  ELSE mainPc' = "exited" /\ exitStatus' = "quoted"
          ELSE /\ events' = events \o FetchEvents("calculateQuoteOnChain", outcome)
               /\ Fatal
    /\ UNCHANGED <<flags, poolAddress, mainPool, minOut>>

\* The lines typed at the confirmation prompt.
ConfirmAnswers ==
    { <<"y">>, <<"Y">>, <<"y", "e", "s">>, <<" ", "y", "e", "s", " ">>,
      <<"n">>, <<>>, <<"y", "y">>, <<"y", "e">> }

\* A confirmation that takes every line read for a yes.
confirmQuoteAnyLine(scanned, text) == scanned

\* confirmQuote: false when no line can be read, else whether the line,
\* lower-cased and trimmed, is "y" or "yes"
confirmQuote(scanned, text) ==
    /\ scanned
    /\ LET response == TrimSpace(ToLower(text))
       IN  response = <<"y">> \/ response = <<"y", "e", "s">>

\* if !confirmQuote(..) { "Swap cancelled by user."; return }
Confirm ==
    /\ mainPc = "confirm"
    /\ \E scanned \in BOOLEAN, text \in ConfirmAnswers :
          IF confirmQuote(scanned, text)
          THEN /\ events' = Append(events, [what |-> "confirmed", text |-> text])
               /\ mainPc' = "slippage" /\ exitStatus' = exitStatus
          ELSE /\ events' = events
               /\ mainPc' = "exited" /\ exitStatus' = "cancelled"
    /\ UNCHANGED <<flags, poolAddress, mainPool, minOut>>

\* slippage, err := getSlippageFromUser(); log.Fatalf on an error
Slippage ==
    /\ mainPc = "slippage"
    /\ \E r \in {"err", "ok"} :
          IF r = "ok"
          THEN /\ events' = Append(events, [what |-> "slippage"])
               /\ mainPc' = "refetch" /\ exitStatus' = exitStatus
          ELSE events' = events /\ Fatal
    /\ UNCHANGED <<flags, poolAddress, mainPool, minOut>>

\* What GetAccountInfo answers main for a mint account.
MainMintResults ==
    { r \in MintAccountResults : r.kind = "rpcerr" \/ (r.len = 82 /\ r.byte44 = 6) }

\* main fetches and decodes the pool again; the errors of getTokenDecimals
\* and of fetchVaultBalances are dropped (pool.BaseDecimals, _ = .. and
\* _ = fetchVaultBalances(..)), a failed getTokenDecimals leaving 0.  Then
\* minAmountOut := calculateMinAmountOut(quote, slippage, outputDecimals).
Refetch ==
    /\ mainPc = "refetch"
    /\ \E acct \in {"accterr", "parseerr", "ok"}, mints \in MintPairs,
          rBase \in MainMintResults, rQuote \in MainMintResults, vault \in {"err", "ok"} :
          IF acct # "ok"
          THEN /\ Fatal
               /\ UNCHANGED <<mainPool, minOut, events>>
          ELSE LET base == getTokenDecimals(mints[1], rBase)
                   quote == getTokenDecimals(mints[2], rQuote)
                   pool == [BaseMint |-> mints[1], QuoteMint |-> mints[2],
                            BaseDecimals |-> base.decimals,
                            QuoteDecimals |-> quote.decimals,
                            vaultsFetched |-> vault = "ok"]
                   outputDecimals ==
                       IF flags.side = "buy"
                       THEN IF IsBaseSol(pool) THEN pool.QuoteDecimals ELSE pool.BaseDecimals
                       ELSE SOL_DECIMALS
                   unfetched ==
                       flags.side = "buy" /\ (IF IsBaseSol(pool) THEN quote.err ELSE base.err)
               IN  /\ mainPool' = pool
                   /\ minOut' = [outputDecimals |-> outputDecimals]
                   /\ events' = events
                        \o FetchEvents("main", IF base.err THEN "decerr" ELSE "ok")
                        \o FetchEvents("main", IF quote.err THEN "decerr" ELSE "ok")
                        \o FetchEvents("main", IF vault = "err" THEN "vaulterr" ELSE "ok")
                        \o <<[what |-> "min-out", outputDecimals |-> outputDecimals,
                              unfetched |-> unfetched]>>
                   /\ mainPc' = "execute" /\ exitStatus' = exitStatus
    /\ UNCHANGED <<flags, poolAddress>>

\* What executeSwap does once its fetches succeeded: it fails before any
\* submission, the submission fails, the submission fails the signature
\* check and the second one fails or succeeds, or the first succeeds.
SubmitOutcomes == {"builderr", "senderr", "retryerr", "retryok", "ok"}

SubmitEvent == [what |-> "submit"]
SubmitFailedEvent(retried) == [what |-> "submit-failed", retried |-> retried]

SubmitEvents(outcome) ==
    CASE outcome = "builderr" -> <<>>
      [] outcome = "senderr" -> <<SubmitEvent, SubmitFailedEvent(FALSE)>>
      [] outcome = "retryerr" ->
            <<SubmitEvent, SubmitFailedEvent(TRUE), SubmitEvent, SubmitFailedEvent(FALSE)>>
      [] outcome = "retryok" -> <<SubmitEvent, SubmitFailedEvent(TRUE), SubmitEvent>>
      [] outcome = "ok" -> <<SubmitEvent>>

\* txHash, err := executeSwap(..); log.Fatalf("Swap failed") on an error,
\* "Swap executed successfully" otherwise
Execute ==
    /\ mainPc = "execute"
    /\ \E fetch \in PoolFetchOutcomes, submit \in SubmitOutcomes :
          IF fetch # "ok"
          THEN /\ events' = events \o FetchEvents("executeSwap", fetch)
               /\ Fatal
          ELSE IF submit \in {"retryok", "ok"}
          THEN /\ events' = events
                    \o <<[what |-> "swap", pool |-> poolAddress]>>
                    \o SubmitEvents(submit) \o <<[what |-> "success"]>>
               /\ mainPc' = "report" /\ exitStatus' = exitStatus
          ELSE /\ events' = events
                    \o <<[what |-> "swap", pool |-> poolAddress]>>
                    \o SubmitEvents(submit)
               /\ Fatal
    /\ UNCHANGED <<flags, poolAddress, mainPool, minOut>>

\* report, err := generateReport(..); printReport(report), or the warning
\* and the explorer link
Report ==
    /\ mainPc = "report"
    /\ \E r \in {"err", "ok"} :
          events' = Append(events, [what |-> "report", full |-> r = "ok"])
    /\ mainPc' = "exited"
    /\ exitStatus' = "done"
    /\ UNCHANGED <<flags, poolAddress, mainPool, minOut>>

InitMain ==
    /\ SwapIdle /\ ParseIdle /\ QuoteIdle /\ SlipIdle /\ SubmitIdle
    /\ IdleExceptMain /\ MainInit

NextMain ==
    \/ ParseFlags /\ UNCHANGED <<swapVars, parseVars, quoteVars, slipVars, submitVars, exceptMain>>
    \/ Discover /\ UNCHANGED <<swapVars, parseVars, quoteVars, slipVars, submitVars, exceptMain>>
    \/ Quote /\ UNCHANGED <<swapVars, parseVars, quoteVars, slipVars, submitVars, exceptMain>>
    \/ Confirm /\ UNCHANGED <<swapVars, parseVars, quoteVars, slipVars, submitVars, exceptMain>>
    \/ Slippage /\ UNCHANGED <<swapVars, parseVars, quoteVars, slipVars, submitVars, exceptMain>>
    \/ Refetch /\ UNCHANGED <<swapVars, parseVars, quoteVars, slipVars, submitVars, exceptMain>>
    \/ Execute /\ UNCHANGED <<swapVars, parseVars, quoteVars, slipVars, submitVars, exceptMain>>
    \/ Report /\ UNCHANGED <<swapVars, parseVars, quoteVars, slipVars, submitVars, exceptMain>>

SpecMain == InitMain /\ [][NextMain]_vars


\* The events of one kind in the run so far.
EventsOf(what) == { n \in 1..Len(events) : events[n].what = what }

BothGiven == flags # NoResult /\ flags.poolAddr # "" /\ flags.tokenAddr # ""

\* C13: when both the pool address and the token are given, the pool address
\* takes precedence: no discovery scan runs and the pool quoted and swapped
\* is the one given.
C13_PoolTakesPrecedence ==
    BothGiven =>
        /\ EventsOf("scan") = {}
        /\ \A n \in EventsOf("quote") \cup EventsOf("swap") : events[n].pool = flags.poolAddr


(***************************************************************************)
(* SpecDerive: the two address derivations, the market vault signer of     *)
(* createSwapInstruction and the authority of parsePoolAccount, over the   *)
(* same set of off-curve nonces.                                           *)
(***************************************************************************)
DeriveOffCurveChoices == OffCurveChoices \cup { {1}, {0, 255}, {1, 254} }

DerivePoolSamples ==
    [Market : {Key(0), Key(10)}, MarketProgram : {OPENBOOK_PROGRAM, Key(11)}]

\* createSwapInstruction, the market vault signer
DeriveVaultSigner ==
    /\ signerRet = NoResult
    /\ LET r == MarketVaultSigner(derivePool, offCurve)
       IN  signerRet' = [status |-> "done", err |-> r.err, key |-> r.key]
    /\ UNCHANGED <<derivePool, authorityRet>>

\* parsePoolAccount, the authority: an error returns the error, a nonce that
\* differs from the stored one prints a warning only
DeriveAuthority ==
    /\ authorityRet = NoResult
    /\ LET r == FindProgramAddress(AUTHORITY_AMM_SEED, RAYDIUM_AMM_V4, offCurve)
       IN  authorityRet' = [status |-> "done", err |-> r.err, key |-> r.key, nonce |-> r.nonce]
    /\ UNCHANGED <<derivePool, signerRet>>

InitDerive ==
    /\ offCurve \in DeriveOffCurveChoices
    /\ swapArgs = NoResult /\ swapIx = NoResult
    /\ ParseIdle /\ QuoteIdle /\ SlipIdle /\ SubmitIdle
    /\ IdleExceptDerive
    /\ derivePool \in DerivePoolSamples
    /\ signerRet = NoResult
    /\ authorityRet = NoResult

NextDerive ==
    \/ DeriveVaultSigner /\ UNCHANGED <<swapVars, parseVars, quoteVars, slipVars, submitVars, exceptDerive>>
    \/ DeriveAuthority /\ UNCHANGED <<swapVars, parseVars, quoteVars, slipVars, submitVars, exceptDerive>>

SpecDerive == InitDerive /\ [][NextDerive]_vars

\* The vault signer is derived when the pool names a market of the
\* order-book program.
SignerDerived ==
    /\ signerRet # NoResult
    /\ ~IsZero(derivePool.Market)
    /\ derivePool.MarketProgram = OPENBOOK_PROGRAM

Smallest(S) == CHOOSE n \in S : \A m \in S : n <= m
Largest(S)  == CHOOSE n \in S : \A m \in S : m <= n

\* The vault signer is the candidate of the smallest off-curve nonce of
\* 0..255, an error if there is none.
SignerIsSmallest ==
    SignerDerived =>
        IF offCurve \cap (0..255) = {}
        THEN signerRet.err
        ELSE /\ ~signerRet.err
             /\ signerRet.key = Pda(<<derivePool.Market, <<Smallest(offCurve \cap (0..255))>>>>,
                                    derivePool.MarketProgram)

IsCriticalFailure(e) ==
    \/ e.what \in {"decimals-failed", "vault-failed"}
    \/ e.what = "submit-failed" /\ ~e.retried

\* What must not follow a failure: a submission, a minimum-out computed from
\* a value whose fetch failed, a report of success.
IsForbiddenAfterFailure(e) ==
    \/ e.what \in {"submit", "success"}
    \/ e.what = "min-out" /\ e.unfetched

\* C15: a failure on the critical path aborts the run: once a fetch of the
\* vault balances or of the decimals has failed, or the submission has
\* failed, no transaction is submitted, no minimum-out is computed from the
\* unfetched values and no success is reported.
C15_CriticalFailureAborts ==
    \A n \in 1..Len(events) : \A k \in 1..Len(events) :
        (n < k /\ IsCriticalFailure(events[n])) => ~IsForbiddenAfterFailure(events[k])


(***************************************************************************)
(* SpecReport: generateReport and parseSwapResult.  Amounts are whole      *)
(* numbers of the token's display unit; a price is the pair of the two     *)
(* amounts it divides.                                                     *)
(***************************************************************************)
PoolOwner == Key(9)

\* A pointer that is not nil.
PtrTo(v) == [nil |-> FALSE, Value |-> v]

\* One entry of Meta.PreTokenBalances / Meta.PostTokenBalances.  Owner is a
\* pointer and may be nil.
TokenBalance(owner, mint, ui) == [Owner |-> owner, Mint |-> mint, UiAmountString |-> ui]

\* strconv.ParseFloat on UiAmountString with its error dropped: the value
\* of a string of digits, 0 for a string that does not parse.
UiAmount(str) ==
    IF str # <<>> /\ \A n \in 1..Len(str) : str[n] \in DigitChars
    THEN DigitsValue(str)
    ELSE 0

\* Transaction metadata as GetTransaction returns it: the error of the
\* transaction, the token balances before and after, and whether the
\* lamport balance lists are there.
TxMeta(err, pre, post, lamports) ==
    [Err |-> err, PreTokenBalances |-> pre, PostTokenBalances |-> post,
     HasLamportBalances |-> lamports]

\* What SignatureFromBase58 and GetTransaction answer.
TxResults ==
    { [kind |-> k] : k \in {"badhash", "rpcerr", "niltx", "nilmeta"} }
    \cup
    { [kind |-> "meta", Meta |-> m] : m \in
        { \* the transaction failed on-chain
          TxMeta(PtrTo("InstructionError"), <<>>, <<>>, TRUE),
          \* the wallet paid 3 of one token and received 7 of another
          TxMeta(NilPtr,
                 <<TokenBalance(PtrTo(PoolOwner), TOKEN_MINT, <<"9", "0">>),
                   TokenBalance(PtrTo(WalletKey), WSOL_MINT, <<"5">>),
                   TokenBalance(PtrTo(WalletKey), TOKEN_MINT, <<"0">>)>>,
                 <<TokenBalance(PtrTo(PoolOwner), TOKEN_MINT, <<"8", "3">>),
                   TokenBalance(PtrTo(WalletKey), WSOL_MINT, <<"2">>),
                   TokenBalance(PtrTo(WalletKey), TOKEN_MINT, <<"7">>)>>, TRUE),
          \* the wallet's accounts were created by the transaction: only
          \* the pool's vaults have a balance before it
          TxMeta(NilPtr,
                 <<TokenBalance(PtrTo(PoolOwner), TOKEN_MINT, <<"9", "0">>),
                   TokenBalance(PtrTo(PoolOwner), WSOL_MINT, <<"4", "0">>)>>,
                 <<TokenBalance(PtrTo(PoolOwner), TOKEN_MINT, <<"8", "3">>),
                   TokenBalance(PtrTo(PoolOwner), WSOL_MINT, <<"4", "3">>),
                   TokenBalance(PtrTo(WalletKey), TOKEN_MINT, <<"7">>)>>, TRUE),
          \* the wallet's account was closed by the transaction
          TxMeta(NilPtr,
                 <<TokenBalance(PtrTo(WalletKey), TOKEN_MINT, <<"7">>)>>,
                 <<TokenBalance(PtrTo(PoolOwner), TOKEN_MINT, <<"9", "7">>)>>, TRUE),
          \* entries without an owner
          TxMeta(NilPtr,
                 <<TokenBalance(NilPtr, TOKEN_MINT, <<"7">>)>>,
                 <<TokenBalance(NilPtr, TOKEN_MINT, <<"4">>)>>, TRUE),
          \* a pair whose amounts do not parse, and a pair that received
          TxMeta(NilPtr,
                 <<TokenBalance(PtrTo(WalletKey), TOKEN_MINT, <<>>),
                   TokenBalance(PtrTo(WalletKey), WSOL_MINT, <<"1">>)>>,
                 <<TokenBalance(PtrTo(WalletKey), WSOL_MINT, <<"4">>),
                   TokenBalance(PtrTo(WalletKey), TOKEN_MINT, <<>>)>>, TRUE),
          \* no token balances at all, with and without lamport balances
          TxMeta(NilPtr, <<>>, <<>>, TRUE),
          TxMeta(NilPtr, <<>>, <<>>, FALSE) } }

\* The post balances that pair with a pre balance: same owner, the wallet,
\* and same mint.
PairsOf(pre, posts, wallet) ==
    { k \in 1..Len(posts) : /\ ~posts[k].Owner.nil
                            /\ posts[k].Owner.Value = wallet
                            /\ pre.Mint = posts[k].Mint }

\* The loop over preBalances: for a pre balance of the wallet the first
\* pairing post balance is taken, a negative difference sets tokenIn and a
\* positive one tokenOut.
RECURSIVE BalanceLoop(_, _, _, _, _)
BalanceLoop(pres, posts, wallet, n, acc) ==
    IF n > Len(pres) THEN acc
    ELSE LET pre == pres[n]
             pairs == PairsOf(pre, posts, wallet)
         IN  IF ~pre.Owner.nil /\ pre.Owner.Value = wallet /\ pairs # {}
             THEN LET post == posts[CHOOSE k \in pairs : \A j \in pairs : k <= j]
                      diff == UiAmount(post.UiAmountString) - UiAmount(pre.UiAmountString)
                  IN  BalanceLoop(pres, posts, wallet, n + 1,
                         IF diff < 0 THEN [acc EXCEPT !.tokenIn = 0 - diff]
                         ELSE IF diff > 0 THEN [acc EXCEPT !.tokenOut = diff]
                         ELSE acc)
             ELSE BalanceLoop(pres, posts, wallet, n + 1, acc)

ParseError(msg) == [actualIn |-> 0, actualOut |-> 0, err |-> <<msg>>]

\* parseSwapResult(ctx, client, txHash, wallet)
parseSwapResult(tx, wallet) ==
    IF tx.kind = "badhash" THEN ParseError("invalid transaction hash")
    ELSE IF tx.kind = "rpcerr" THEN ParseError("failed to get transaction")
    ELSE IF tx.kind \in {"niltx", "nilmeta"} THEN ParseError("transaction not found or no metadata")
    ELSE IF ~tx.Meta.Err.nil THEN ParseError("transaction failed")
    ELSE LET found == BalanceLoop(tx.Meta.PreTokenBalances, tx.Meta.PostTokenBalances,
                                  wallet, 1, [tokenIn |-> 0, tokenOut |-> 0])
         IN  IF /\ found.tokenIn = 0 /\ found.tokenOut = 0
                /\ tx.Meta.HasLamportBalances
                /\ Len(tx.Meta.PreTokenBalances) = 0
             THEN ParseError("could not parse transaction balances")
             ELSE [actualIn |-> found.tokenIn, actualOut |-> found.tokenOut, err |-> NoError]

\* A price num / den of two amounts that are not negative; a float division
\* by zero gives an infinity, or a NaN for 0 / 0.
Price(num, den) ==
    IF den = 0 THEN (IF num = 0 THEN NaN ELSE Inf(FALSE))
    ELSE [kind |-> "ratio", num |-> num, den |-> den]

PriceGreaterThanZero(p) ==
    \/ p.kind = "inf" /\ ~p.neg
    \/ p.kind = "ratio" /\ p.num > 0

\* math.Abs((actualPrice-expectedPrice)/expectedPrice) * 100 for an
\* expected price above zero
SlippageOf(actual, expected) ==
    IF actual.kind = "ratio" /\ expected.kind = "ratio"
    THEN LET d == actual.num * expected.den - expected.num * actual.den
         IN  [kind |-> "ratio",
              num |-> 100 * (IF d < 0 THEN 0 - d ELSE d),
              den |-> actual.den * expected.num]
    ELSE IF actual.kind = "nan" \/ expected.kind # "ratio" THEN NaN
    ELSE Inf(FALSE)

getInputToken(sd) == IF sd = "buy" THEN "SOL" ELSE "TOKEN"
getOutputToken(sd) == IF sd = "buy" THEN "TOKEN" ELSE "SOL"

\* generateReport after its call of parseSwapResult
generateReport(args, parsedResult) ==
    LET failed == parsedResult.err # NoError
        actualIn == IF failed THEN args.expectedIn ELSE parsedResult.actualIn
        actualOut == IF failed THEN args.expectedOut ELSE parsedResult.actualOut
        expectedPrice ==
            IF args.side = "buy" THEN Price(args.expectedIn, args.expectedOut)
            ELSE Price(args.expectedOut, args.expectedIn)
        actualPrice ==
            IF args.side = "buy"
            THEN IF actualOut > 0 THEN Price(actualIn, actualOut) ELSE expectedPrice
            ELSE IF actualIn > 0 THEN Price(actualOut, actualIn) ELSE expectedPrice
        slippage ==
            IF PriceGreaterThanZero(expectedPrice)
            THEN SlippageOf(actualPrice, expectedPrice)
            ELSE [kind |-> "ratio", num |-> 0, den |-> 1]
    IN  [status |-> "report",
         err |-> NoError,
         Status |-> "Success",
         AmountIn |-> actualIn,
         AmountOut |-> actualOut,
         ExpectedPrice |-> expectedPrice,
         ActualPrice |-> actualPrice,
         Slippage |-> slippage,
         InputToken |-> getInputToken(args.side),
         OutputToken |-> getOutputToken(args.side)]

ReportArgsSamples ==
    [side : {"buy", "sell"},
     expectedIn : {1, 3},
     expectedOut : {0, 7},
     wallet : {WalletKey},
     tx : TxResults]

ReportInit ==
    /\ reportArgs \in ReportArgsSamples
    /\ reportPc = "parse"
    /\ swapResult = NoResult
    /\ report = NoResult

\* actualIn, actualOut, err := parseSwapResult(ctx, client, txHash, wallet)
CallParseSwapResult ==
    /\ reportPc = "parse"
    /\ swapResult' = parseSwapResult(reportArgs.tx, reportArgs.wallet)
    /\ reportPc' = "build"
    /\ UNCHANGED <<reportArgs, report>>

\* the rest of generateReport
ReturnReport ==
    /\ reportPc = "build"
    /\ report' = generateReport(reportArgs, swapResult)
    /\ reportPc' = "returned"
    /\ UNCHANGED <<reportArgs, swapResult>>

InitReport ==
    /\ SwapIdle /\ ParseIdle /\ QuoteIdle /\ SlipIdle /\ SubmitIdle
    /\ IdleExceptReport /\ ReportInit

NextReport ==
    \/ CallParseSwapResult /\ UNCHANGED <<swapVars, parseVars, quoteVars, slipVars, submitVars, exceptReport>>
    \/ ReturnReport /\ UNCHANGED <<swapVars, parseVars, quoteVars, slipVars, submitVars, exceptReport>>

SpecReport == InitReport /\ [][NextReport]_vars

\* The pre and post token balances of the wallet that pair up by mint.
WalletPairs(meta, wallet) ==
    { <<n, k>> \in (1..Len(meta.PreTokenBalances)) \X (1..Len(meta.PostTokenBalances)) :
        /\ meta.PreTokenBalances[n].Owner = PtrTo(wallet)
        /\ meta.PostTokenBalances[k].Owner = PtrTo(wallet)
        /\ meta.PreTokenBalances[n].Mint = meta.PostTokenBalances[k].Mint }

\* The actual amounts cannot be recovered from the transaction metadata.
CannotRecover ==
    \/ reportArgs.tx.kind # "meta"
    \/ ~reportArgs.tx.Meta.Err.nil
    \/ WalletPairs(reportArgs.tx.Meta, reportArgs.wallet) = {}

\* C16: generateReport always returns a report and no error, and when the
\* actual amounts cannot be recovered from the transaction metadata the
\* report's amounts are the expected amounts.
C16_ReportFallsBackToExpected ==
    reportPc = "returned" =>
        /\ report.status = "report"
        /\ report.err = NoError
        /\ CannotRecover =>
              /\ report.AmountIn = reportArgs.expectedIn
              /\ report.AmountOut = reportArgs.expectedOut


(***************************************************************************)
(* SpecDiscover: findPoolsOnChain and the use main makes of its result.    *)
(***************************************************************************)
\* Longest list of accounts a scan answers with.
MaxScanned == 2

\* One account of the scan: whether parsePoolAccount decodes it, the mints
\* it decodes to, and what the fetches of its decimals and of its vault
\* balances will answer.
ScannedAccount(id, decodes, base, quote, rBase, rQuote, vBase, vQuote) ==
    [Pubkey |-> Key(100 + id), decodes |-> decodes, BaseMint |-> base, QuoteMint |-> quote,
     rBase |-> rBase, rQuote |-> rQuote, vBase |-> vBase, vQuote |-> vQuote]

MintOk == [kind |-> "ok", len |-> 82, byte44 |-> 6]
MintErr == [kind |-> "rpcerr", len |-> 0, byte44 |-> 0]
VaultOk(amount) == [kind |-> "ok", amount |-> amount]
VaultErr == [kind |-> "rpcerr", amount |-> U64Zero]
SmallReserve == <<51712, 15258, 0, 0>>
LargeReserve == <<1, 0, 0, 4000>>

ScannedAccountSamples ==
    { ScannedAccount(1, TRUE, WSOL_MINT, TOKEN_MINT, MintOk, MintOk, VaultOk(SmallReserve), VaultOk(LargeReserve)),
      ScannedAccount(2, TRUE, TOKEN_MINT, WSOL_MINT, MintOk, MintOk, VaultOk(SmallReserve), VaultOk(LargeReserve)),
      ScannedAccount(3, TRUE, TOKEN_MINT, SOL_MINT, MintOk, MintOk, VaultOk(LargeReserve), VaultOk(U64Zero)),
      ScannedAccount(4, TRUE, WSOL_MINT, TOKEN_MINT, MintOk, MintOk, VaultOk(U64Zero), VaultOk(U64Zero)),
      ScannedAccount(5, TRUE, TOKEN_MINT, OTHER_MINT, MintOk, MintOk, VaultOk(LargeReserve), VaultOk(LargeReserve)),
      ScannedAccount(6, TRUE, OTHER_MINT, WSOL_MINT, MintOk, MintOk, VaultOk(LargeReserve), VaultOk(LargeReserve)),
      ScannedAccount(7, TRUE, WSOL_MINT, TOKEN_MINT, MintOk, MintErr, VaultOk(LargeReserve), VaultOk(LargeReserve)),
      ScannedAccount(8, TRUE, TOKEN_MINT, WSOL_MINT, MintOk, MintOk, VaultOk(LargeReserve), VaultErr),
      ScannedAccount(9, FALSE, TOKEN_MINT, WSOL_MINT, MintOk, MintOk, VaultOk(LargeReserve), VaultOk(LargeReserve)) }

ScanLists ==
    UNION { [1..n -> ScannedAccountSamples] : n \in 0..MaxScanned }

DiscoverArgsSamples ==
    { [token |-> TOKEN_MINT, scan |-> [kind |-> k, accounts |-> <<>>]] : k \in {"badaddr", "rpcerr"} }
    \cup
    { [token |-> TOKEN_MINT, scan |-> [kind |-> "ok", accounts |-> l]] : l \in ScanLists }

\* The body of the loop over the accounts for one account: the pool to
\* append, if any.
ScanAccount(account, token) ==
    IF ~account.decodes THEN [keep |-> FALSE, pool |-> NoResult]
    ELSE LET pool == [NewOnChainPool(account.Pubkey) EXCEPT
                        !.BaseMint = account.BaseMint, !.QuoteMint = account.QuoteMint]
             hasOurToken == pool.BaseMint = token \/ pool.QuoteMint = token
             hasSol == \/ pool.BaseMint = WSOL_MINT \/ pool.QuoteMint = WSOL_MINT
                       \/ pool.BaseMint = SOL_MINT \/ pool.QuoteMint = SOL_MINT
             base == getTokenDecimals(pool.BaseMint, account.rBase)
             quote == getTokenDecimals(pool.QuoteMint, account.rQuote)
             withDecimals == [pool EXCEPT !.BaseDecimals = base.decimals,
                                          !.QuoteDecimals = quote.decimals]
             fetch == fetchVaultBalances(withDecimals, account.vBase, account.vQuote)
         IN  IF ~(hasOurToken /\ hasSol) THEN [keep |-> FALSE, pool |-> NoResult]
             ELSE IF base.err \/ quote.err \/ fetch.err THEN [keep |-> FALSE, pool |-> NoResult]
             ELSE [keep |-> TRUE, pool |-> fetch.pool]

\* pools after the loop over the accounts
RECURSIVE ScanLoop(_, _, _, _)
ScanLoop(accounts, token, n, pools) ==
    IF n > Len(accounts) THEN pools
    ELSE LET r == ScanAccount(accounts[n], token)
         IN  ScanLoop(accounts, token, n + 1, IF r.keep THEN Append(pools, r.pool) ELSE pools)

\* The selection loop: bestPool starts nil and maxLiquidity 0, a pool
\* replaces bestPool when its SOL reserves are greater than maxLiquidity.
RECURSIVE SelectLoop(_, _, _, _)
SelectLoop(pools, n, bestPool, maxLiquidity) ==
    IF n > Len(pools) THEN bestPool
    ELSE LET solReserves == SolReserves(pools[n])
         IN  IF GtU64(solReserves, maxLiquidity)
             THEN SelectLoop(pools, n + 1, [nil |-> FALSE, Value |-> pools[n]], solReserves)
             ELSE SelectLoop(pools, n + 1, bestPool, maxLiquidity)

\* findPoolsOnChain(ctx, client, tokenAddress)
findPoolsOnChain(args) ==
    IF args.scan.kind = "badaddr" THEN [err |-> <<"invalid token address">>, pool |-> NilPtr]
    ELSE IF args.scan.kind = "rpcerr" THEN [err |-> <<"failed to get program accounts">>, pool |-> NilPtr]
    ELSE LET pools == ScanLoop(args.scan.accounts, args.token, 1, <<>>)
         IN  IF Len(pools) = 0
             THEN [err |-> <<"no pools found">>, pool |-> NilPtr]
             ELSE [err |-> NoError, pool |-> SelectLoop(pools, 1, NilPtr, U64Zero)]

DiscoverInit ==
    /\ discoverArgs \in DiscoverArgsSamples
    /\ discoverPc = "call"
    /\ discoverRet = NoResult
    /\ discoverUse = NoResult

\* pool, err := findPoolsOnChain(ctx, client, tokenAddr)
CallFindPoolsOnChain ==
    /\ discoverPc = "call"
    /\ discoverRet' = findPoolsOnChain(discoverArgs)
    /\ discoverPc' = "use"
    /\ UNCHANGED <<discoverArgs, discoverUse>>

\* main: log.Fatal(err) on an error, poolAddress = pool.Address.String()
\* otherwise, which is a nil pointer dereference when pool is nil
UsePool ==
    /\ discoverPc = "use"
    /\ discoverUse' =
          IF discoverRet.err # NoError THEN [status |-> "fatal"]
          ELSE IF discoverRet.pool.nil THEN [status |-> "panic"]
          ELSE [status |-> "ok", poolAddress |-> discoverRet.pool.Value.Address]
    /\ discoverPc' = "done"
    /\ UNCHANGED <<discoverArgs, discoverRet>>

InitDiscover ==
    /\ SwapIdle /\ ParseIdle /\ QuoteIdle /\ SlipIdle /\ SubmitIdle
    /\ IdleExceptDiscover /\ DiscoverInit

NextDiscover ==
    \/ CallFindPoolsOnChain /\ UNCHANGED <<swapVars, parseVars, quoteVars, slipVars, submitVars, exceptDiscover>>
    \/ UsePool /\ UNCHANGED <<swapVars, parseVars, quoteVars, slipVars, submitVars, exceptDiscover>>

SpecDiscover == InitDiscover /\ [][NextDiscover]_vars

\* The scanned accounts that decode to a pool pairing the token with the
\* native asset and whose decimals and vault balances can be fetched.
Candidates ==
    IF discoverArgs.scan.kind # "ok" THEN {}
    ELSE { a \in { discoverArgs.scan.accounts[n] : n \in 1..Len(discoverArgs.scan.accounts) } :
             /\ a.decodes
             /\ discoverArgs.token \in {a.BaseMint, a.QuoteMint}
             /\ {a.BaseMint, a.QuoteMint} \cap {WSOL_MINT, SOL_MINT} # {}
             /\ a.BaseMint \in {WSOL_MINT, SOL_MINT} \/ a.rBase.kind = "ok"
             /\ a.QuoteMint \in {WSOL_MINT, SOL_MINT} \/ a.rQuote.kind = "ok"
             /\ a.vBase.kind = "ok" /\ a.vQuote.kind = "ok" }

NativeReserve(a) ==
    IF a.BaseMint \in {WSOL_MINT, SOL_MINT} THEN a.vBase.amount ELSE a.vQuote.amount

\* C17: discovery returns an error exactly when no scanned account is a
\* candidate; otherwise it returns, without error, one of the candidates,
\* and no candidate has a higher native reserve than the returned pool.
C17_DiscoveryReturnsBestCandidate ==
    discoverRet # NoResult =>
        /\ discoverRet.err # NoError <=> Candidates = {}
        /\ discoverRet.err = NoError =>
              /\ ~discoverRet.pool.nil
              /\ \E a \in Candidates :
                    /\ a.Pubkey = discoverRet.pool.Value.Address
                    /\ \A b \in Candidates : ~GtU64(NativeReserve(b), NativeReserve(a))


(***************************************************************************)
(* SpecRoute: calculateQuoteOnChain from the decoded pool to the quote,    *)
(* run twice on the same arguments.  Human amounts are decimal numbers     *)
(* mant * 10^-scale, taken exactly.                                        *)
(***************************************************************************)
\* uint64(x) of a float that uint64 cannot represent (a negative number
\* below -1, a NaN) is implementation-dependent: the builds differ, one
\* build always gives the same value.  The values the builds give, in the
\* narrowed word: 0 and the top bit.
OutOfRangeConversions == {0, 2 ^ (WordBits - 1)}

\* uint64(amount * math.Pow(10, decimals)), truncated toward zero
ToRaw(amount, decimals, outOfRange) ==
    IF amount.kind # "num" THEN outOfRange
    ELSE LET magnitude == IF decimals >= amount.scale
                          THEN amount.mant * 10 ^ (decimals - amount.scale)
                          ELSE amount.mant \div (10 ^ (amount.scale - decimals))
         IN  IF amount.neg /\ magnitude > 0 THEN outOfRange ELSE magnitude

\* inputDecimals and outputDecimals of calculateQuoteOnChain
QuoteDecimalsUsed(pool, sd) ==
    IF sd = "buy"
    THEN [inputDecimals |-> SOL_DECIMALS,
          outputDecimals |-> IF IsBaseSol(pool) THEN pool.QuoteDecimals ELSE pool.BaseDecimals]
    ELSE [inputDecimals |-> IF IsBaseSol(pool) THEN pool.QuoteDecimals ELSE pool.BaseDecimals,
          outputDecimals |-> SOL_DECIMALS]

\* fee := float64(amountOut) * 0.0025; amountOutAfterFee := amountOut - fee;
\* result := amountOutAfterFee / 10^outputDecimals, that is
\* amountOut * 9975 * 10^-(4 + outputDecimals)
HumanQuote(amountOut, outputDecimals) == Num(FALSE, amountOut * 9975, 4 + outputDecimals)

\* calculateQuoteOnChain from "Determine swap direction" on
calculateQuote(pool, sd, amount, outOfRange) ==
    LET decimals == QuoteDecimalsUsed(pool, sd)
        reserves == QuoteReserves(pool, sd)
        amountIn == ToRaw(amount, decimals.inputDecimals, outOfRange)
        out == calculateSwapAmount(reserves.reserveOut, reserves.reserveIn, amountIn)
    IN  IF out.status = "panic" THEN [status |-> "panic"]
        ELSE [status |-> "ok",
              isBaseToQuote |-> QuoteIsBaseToQuote(pool, sd),
              inputDecimals |-> decimals.inputDecimals,
              outputDecimals |-> decimals.outputDecimals,
              reserveIn |-> reserves.reserveIn,
              reserveOut |-> reserves.reserveOut,
              amountIn |-> amountIn,
              amountOut |-> out.value,
              result |-> HumanQuote(out.value, decimals.outputDecimals)]

\* Decimal counts of the two sides of a decoded pool.
RoutePoolSample(mints, baseAmount, quoteAmount) ==
    [BaseMint |-> mints[1], QuoteMint |-> mints[2],
     BaseDecimals |-> getTokenDecimals(mints[1], [kind |-> "ok", len |-> 82, byte44 |-> 6]).decimals,
     QuoteDecimals |-> getTokenDecimals(mints[2], [kind |-> "ok", len |-> 82, byte44 |-> 5]).decimals,
     BaseAmount |-> baseAmount, QuoteAmount |-> quoteAmount]

\* 2 lamports; 3 units of a token of 6 decimals; 2.5 units of a token of 6
\* decimals; minus one; not a number.
AmountSamples ==
    { Num(FALSE, 2, 9), Num(FALSE, 3, 6), Num(FALSE, 25, 7), Num(TRUE, 1, 0), NaN }

RouteArgsSamples ==
    { [pool |-> RoutePoolSample(mints, b, q), side |-> sd, amount |-> a, outOfRange |-> o] :
        mints \in MintPairs, b \in {0, 5}, q \in {3, 7}, sd \in {"buy", "sell"},
        a \in AmountSamples, o \in OutOfRangeConversions }

RouteInit ==
    /\ routeArgs \in RouteArgsSamples
    /\ routePc = "first"
    /\ routeOut = <<>>

\* A second run in which the conversion of an amount out of range gives any
\* of the values, whatever the first run gave.
RunQuoteAgainAnyConversion ==
    /\ routePc = "second"
    /\ \E o \in OutOfRangeConversions :
          routeOut' = Append(routeOut,
              calculateQuote(routeArgs.pool, routeArgs.side, routeArgs.amount, o))
    /\ routePc' = "done"
    /\ UNCHANGED routeArgs

\* one run of the quote computation
RunQuote ==
    /\ routePc = "first"
    /\ routeOut' = Append(routeOut,
          calculateQuote(routeArgs.pool, routeArgs.side, routeArgs.amount, routeArgs.outOfRange))
    /\ routePc' = "second"
    /\ UNCHANGED routeArgs

\* a run of its own on the same pool, side and amount, by the same build
RunQuoteAgain ==
    /\ routePc = "second"
    /\ routeOut' = Append(routeOut,
          calculateQuote(routeArgs.pool, routeArgs.side, routeArgs.amount, routeArgs.outOfRange))
    /\ routePc' = "done"
    /\ UNCHANGED routeArgs

InitRoute ==
    /\ SwapIdle /\ ParseIdle /\ QuoteIdle /\ SlipIdle /\ SubmitIdle
    /\ IdleExceptRoute /\ RouteInit

NextRoute ==
    \/ RunQuote /\ UNCHANGED <<swapVars, parseVars, quoteVars, slipVars, submitVars, exceptRoute>>
    \/ RunQuoteAgain /\ UNCHANGED <<swapVars, parseVars, quoteVars, slipVars, submitVars, exceptRoute>>

SpecRoute == InitRoute /\ [][NextRoute]_vars

NativeMints == {WSOL_MINT, SOL_MINT}

ExactlyOneNative ==
    /\ routeArgs # NoResult
    /\ (routeArgs.pool.BaseMint \in NativeMints) # (routeArgs.pool.QuoteMint \in NativeMints)

\* The reserve and the decimal count of the native side and of the other
\* side of the pool.
NativeSide ==
    IF routeArgs.pool.BaseMint \in NativeMints
    THEN [reserve |-> routeArgs.pool.BaseAmount, decimals |-> 9]
    ELSE [reserve |-> routeArgs.pool.QuoteAmount, decimals |-> 9]

OtherSide ==
    IF routeArgs.pool.BaseMint \in NativeMints
    THEN [reserve |-> routeArgs.pool.QuoteAmount, decimals |-> routeArgs.pool.QuoteDecimals]
    ELSE [reserve |-> routeArgs.pool.BaseAmount, decimals |-> routeArgs.pool.BaseDecimals]

\* C20: in a pool with exactly one native side a buy takes the native
\* reserve as reserveIn with 9 input decimals and the other side as
\* reserveOut with its decimal count for the output, a sell the reverse,
\* whichever side is native; the human quote is the raw output less the
\* 0.25% fee, divided by 10^outputDecimals.
C20_QuoteRouting ==
    \A n \in 1..Len(routeOut) :
        (ExactlyOneNative /\ routeOut[n].status = "ok") =>
            LET in == IF routeArgs.side = "buy" THEN NativeSide ELSE OtherSide
                out == IF routeArgs.side = "buy" THEN OtherSide ELSE NativeSide
                r == routeOut[n]
            IN  /\ r.reserveIn = in.reserve
                /\ r.inputDecimals = in.decimals
                /\ r.reserveOut = out.reserve
                /\ r.outputDecimals = out.decimals
                /\ r.amountOut * (r.reserveIn + r.amountIn) <= r.reserveOut * r.amountIn
                /\ (r.amountOut + 1) * (r.reserveIn + r.amountIn) > r.reserveOut * r.amountIn
                /\ r.result.kind = "num" /\ ~r.result.neg
                /\ r.result.mant * 10000 = r.amountOut * (10000 - 25) * 10 ^ (r.result.scale - out.decimals)

\* A sell into a pool whose base is the native mint has been quoted with a
\* positive output.
C20_Witness ==
    /\ ExactlyOneNative
    /\ routeArgs.side = "sell"
    /\ routeArgs.pool.BaseMint = WSOL_MINT
    /\ Len(routeOut) >= 1
    /\ routeOut[1].status = "ok"
    /\ routeOut[1].amountOut > 0
    /\ routeOut[1].reserveIn = routeArgs.pool.QuoteAmount


\* createSwapInstruction was called for a pool that names a market of the
\* order-book program, so that the vault signer is derived.
SignerDerivationAttempted ==
    /\ swapIx # NoResult
    /\ swapIx.by = "createSwapInstruction"
    /\ ~IsZero(swapArgs.pool.Market)
    /\ swapArgs.pool.MarketProgram = OPENBOOK_PROGRAM

PowerOfTen(n) == IF n > 0 THEN 10 ^ n ELSE 1

\* 100 - slippagePercent as a multiple of 10^-scale of the slippage
SlippageComplement(slippagePercent) ==
    IF slippagePercent.neg
    THEN 100 * 10 ^ slippagePercent.scale + slippagePercent.mant
    ELSE 100 * 10 ^ slippagePercent.scale - slippagePercent.mant

\* calculateMinAmountOut with the slippage added to the expected output.
calculateMinAmountOutAdding(expectedOut, slippagePercent, outputDecimals, outOfRange) ==
    IF expectedOut.kind # "num" \/ slippagePercent.kind # "num" THEN outOfRange
    ELSE (expectedOut.mant * (100 * 10 ^ slippagePercent.scale + slippagePercent.mant)
              * PowerOfTen(outputDecimals - expectedOut.scale))
         \div (100 * 10 ^ slippagePercent.scale * PowerOfTen(expectedOut.scale - outputDecimals))

\* calculateMinAmountOut: minAmount := expectedOut * (1 - slippagePercent/100),
\* uint64(minAmount * math.Pow(10, outputDecimals)), truncated toward zero
calculateMinAmountOut(expectedOut, slippagePercent, outputDecimals, outOfRange) ==
    IF expectedOut.kind # "num" \/ slippagePercent.kind # "num" THEN outOfRange
    ELSE LET factor == SlippageComplement(slippagePercent)
             magnitude ==
                 (expectedOut.mant * (IF factor < 0 THEN 0 - factor ELSE factor)
                      * PowerOfTen(outputDecimals - expectedOut.scale))
                 \div (100 * 10 ^ slippagePercent.scale
                          * PowerOfTen(expectedOut.scale - outputDecimals))
         IN  IF (expectedOut.neg # (factor < 0)) /\ magnitude > 0 THEN outOfRange ELSE magnitude

\* The quote and the decimal count main passes: the quote of 3 and of 7 raw
\* units of a token of 5 decimals, a quote of 6.9825 with a decimal count of
\* 0, a quote of 5 and of 0 with 2 decimals.
ExpectedOutSamples ==
    { [expectedOut |-> HumanQuote(3, 5), outputDecimals |-> 5],
      [expectedOut |-> HumanQuote(7, 5), outputDecimals |-> 5],
      [expectedOut |-> Num(FALSE, 69825, 4), outputDecimals |-> 0],
      [expectedOut |-> Num(FALSE, 5, 0), outputDecimals |-> 2],
      [expectedOut |-> FloatZero, outputDecimals |-> 2] }

\* The slippages getSlippageFromUser returns: 0, the default 0.5, 1, 50,
\* 100, and the NaN it lets through.
AcceptedSlippages ==
    { FloatZero, DefaultSlippage, Num(FALSE, 1, 0), Num(FALSE, 50, 0), Num(FALSE, 100, 0), NaN }

MinOutInit ==
    /\ minArgs \in { [expectedOut |-> e.expectedOut, outputDecimals |-> e.outputDecimals,
                      s1 |-> s1, s2 |-> s2, outOfRange |-> o] :
                        e \in ExpectedOutSamples, s1 \in AcceptedSlippages,
                        s2 \in AcceptedSlippages, o \in OutOfRangeConversions }
    /\ minPc = "first"
    /\ minRet = <<>>

\* minAmountOut := calculateMinAmountOut(quote, slippage, outputDecimals)
MinOutFirst ==
    /\ minPc = "first"
    /\ minRet' = <<calculateMinAmountOut(minArgs.expectedOut, minArgs.s1,
                                         minArgs.outputDecimals, minArgs.outOfRange)>>
    /\ minPc' = "second"
    /\ UNCHANGED minArgs

\* the same call of another run, with the slippage s2
MinOutSecond ==
    /\ minPc = "second"
    /\ minRet' = Append(minRet, calculateMinAmountOut(minArgs.expectedOut, minArgs.s2,
                                         minArgs.outputDecimals, minArgs.outOfRange))
    /\ minPc' = "done"
    /\ UNCHANGED minArgs

InitMinOut ==
    /\ SwapIdle /\ ParseIdle /\ QuoteIdle /\ SlipIdle /\ SubmitIdle
    /\ IdleExceptMinOut /\ MinOutInit

NextMinOut ==
    \/ MinOutFirst /\ UNCHANGED <<swapVars, parseVars, quoteVars, slipVars, submitVars, exceptMinOut>>
    \/ MinOutSecond /\ UNCHANGED <<swapVars, parseVars, quoteVars, slipVars, submitVars, exceptMinOut>>

SpecMinOut == InitMinOut /\ [][NextMinOut]_vars

\* The slippage of the n-th call.
SlippageOfCall(n) == IF n = 1 THEN minArgs.s1 ELSE minArgs.s2

InZeroToHundredPercent(x) == x.kind = "num" /\ ~x.neg /\ x.mant <= 100 * 10 ^ x.scale

\* The n-th result is expectedOut * (1 - s/100) * 10^outputDecimals
\* truncated: r <= that value < r + 1, with the fractions cleared.
MinOutIsTruncatedProduct(n) ==
    LET e == minArgs.expectedOut
        sl == SlippageOfCall(n)
        numerator == e.mant * (100 * 10 ^ sl.scale - sl.mant)
                        * PowerOfTen(minArgs.outputDecimals - e.scale)
        denominator == 100 * 10 ^ sl.scale * PowerOfTen(e.scale - minArgs.outputDecimals)
    IN  /\ minRet[n] * denominator <= numerator
        /\ (minRet[n] + 1) * denominator > numerator

\* The n-th result is at most the expected output in raw units.
MinOutAtMostExpected(n) ==
    minRet[n] * PowerOfTen(minArgs.expectedOut.scale - minArgs.outputDecimals)
        <= minArgs.expectedOut.mant * PowerOfTen(minArgs.outputDecimals - minArgs.expectedOut.scale)

PlacesOf(role) == { k \in 1..Len(instructions) : RoleOf(k) = role }

\* The swap instruction of a complete list.
TheSwap == instructions[CHOOSE k \in SwapPlaces : TRUE]

\* C22: the list holds the wrap pair, a transfer from the wallet into the
\* wallet's wrapped-native account with the sync of that account right after
\* it, exactly when the source is the wrapped native mint and the side is
\* "buy"; the amount transferred is the amountIn of the swap payload, and the
\* pair stands after a create of the source account and before a create of
\* the destination account.
C22_WrapPairIffBuyFromWrapped ==
    ListComplete =>
        LET wrapped == BuildDirection.sourceMint = WSOL_MINT /\ buildArgs.side = "buy"
            account == AtaOf(buildArgs.wallet, WSOL_MINT)
        IN  /\ PlacesOf("transfer") # {} <=> wrapped
            /\ PlacesOf("sync-native") # {} <=> wrapped
            /\ \A k \in PlacesOf("transfer") :
                  /\ instructions[k].from = buildArgs.wallet
                  /\ instructions[k].to = account
                  /\ PutUint64(instructions[k].lamports) = SubSeq(TheSwap.Data, 2, 9)
                  /\ k < Len(instructions)
                  /\ instructions[k + 1] = SyncNativeIx(account)
                  /\ \A c \in PlacesOf("create-source") : c < k
                  /\ \A c \in PlacesOf("create-destination") : k + 1 < c
            /\ Cardinality(PlacesOf("transfer")) <= 1
            /\ Cardinality(PlacesOf("sync-native")) <= 1

\* A buy from the wrapped native mint with both accounts created, and the
\* list carries the wrap between the two creates.
C22_Witness ==
    /\ buildPc = "signed"
    /\ buildArgs.side = "buy"
    /\ BuildDirection.sourceMint = WSOL_MINT
    /\ Len(instructions) = 5
    /\ RoleOf(1) = "create-source" /\ RoleOf(4) = "create-destination"
    /\ instructions[2] = TransferIx(buildArgs.amountInRaw, buildArgs.wallet,
                                    AtaOf(buildArgs.wallet, WSOL_MINT))
    /\ instructions[3] = SyncNativeIx(AtaOf(buildArgs.wallet, WSOL_MINT))

\* C23: the list holds a close exactly when the destination is the wrapped
\* native mint and the side is "sell"; the close is of the destination
\* account of the swap, to the wallet, and stands after the swap; a buy
\* closes nothing.
C23_CloseIffSellIntoWrapped ==
    ListComplete =>
        /\ PlacesOf("close-account") # {}
              <=> (BuildDirection.destinationMint = WSOL_MINT /\ buildArgs.side = "sell")
        /\ \A k \in PlacesOf("close-account") :
              /\ instructions[k].account = TheSwap.Accounts[17].PublicKey
              /\ instructions[k].account = AtaOf(buildArgs.wallet, BuildDirection.destinationMint)
              /\ instructions[k].destination = buildArgs.wallet
              /\ instructions[k].owner = buildArgs.wallet
              /\ \A sw \in SwapPlaces : sw < k
        /\ Cardinality(PlacesOf("close-account")) <= 1
        /\ buildArgs.side = "buy" => PlacesOf("close-account") = {}

\* A sell into the wrapped native mint whose list ends with the close of the
\* swap's destination account.
C23_Witness ==
    /\ buildPc = "signed"
    /\ buildArgs.side = "sell"
    /\ BuildDirection.destinationMint = WSOL_MINT
    /\ RoleOf(Len(instructions)) = "close-account"
    /\ RoleOf(Len(instructions) - 1) = "swap"
    /\ instructions[Len(instructions)].account = TheSwap.Accounts[17].PublicKey

\* C24: for the source and for the destination asset a create of the
\* wallet's associated account is in the list exactly when that account is
\* not on the ledger; an account that is there is never created again, also
\* when the query for it fails.
C24_CreateIffAccountMissing ==
    ListComplete =>
        \A q \in 1..Len(ataQueries) :
            (\E k \in 1..Len(instructions) :
                instructions[k] = CreateATAIx(buildArgs.wallet, buildArgs.wallet, ataQueries[q].mint))
            <=> ~ataQueries[q].exists



(***************************************************************************)
(* The market vault signer: derived or the placeholder                     *)
(***************************************************************************)
\* createSwapInstruction has returned.
SwapIxReturned == swapIx # NoResult /\ swapIx.by = "createSwapInstruction"

\* The addresses the derivation over (market, nonce) can give.
SignerCandidates ==
    { Pda(<<swapArgs.pool.Market, <<n>> >>, swapArgs.pool.MarketProgram) :
         n \in offCurve \cap (0..255) }

\* Entry 14 is the placeholder and the call cannot have failed in a
\* derivation.
PlaceholderSigner ==
    /\ swapIx.status = "ok"
    /\ swapIx.Accounts[15].PublicKey = SystemProgramID

\* Entry 14 is a derived address, or the derivation found no nonce and the
\* call returned its error.
DerivedSigner ==
    IF offCurve \cap (0..255) = {}
    THEN swapIx.status = "err"
    ELSE swapIx.status = "ok" /\ swapIx.Accounts[15].PublicKey \in SignerCandidates

\* C25: entry 14 of the account list is the address derived from the market
\* and the market program when the market program of the pool is the
\* order-book program, and the placeholder, with no derivation, in every
\* other case.
C25_DerivedIffOrderBookProgram ==
    SwapIxReturned =>
        IF swapArgs.pool.MarketProgram = OPENBOOK_PROGRAM
        THEN DerivedSigner
        ELSE PlaceholderSigner

\* C25 as the code has it: the derivation is made when the market address is
\* not zero and the market program is the order-book program; with a zero
\* market address or another market program entry 14 is the placeholder and
\* nothing is derived.
C25_DerivedIffMarketOfOrderBookProgram ==
    SwapIxReturned =>
        IF ~IsZero(swapArgs.pool.Market) /\ swapArgs.pool.MarketProgram = OPENBOOK_PROGRAM
        THEN DerivedSigner
        ELSE PlaceholderSigner

\* A pool with a market of another program got the placeholder although
\* nonces were off-curve, and a pool of the order-book program got a derived
\* address: the witness is the first of the two.
C25_Witness ==
    /\ SwapIxReturned
    /\ ~IsZero(swapArgs.pool.Market)
    /\ swapArgs.pool.MarketProgram # OPENBOOK_PROGRAM
    /\ offCurve # {}
    /\ swapIx.status = "ok"
    /\ swapIx.Accounts[15].PublicKey = SystemProgramID



(***************************************************************************)
(* SpecMarket: executeSwap fetches the market of the pool it has parsed    *)
(* and goes on to build the swap.                                          *)
(***************************************************************************)
\* Minimum size for OpenBook market (src/main.go line 1150).
MarketAccountSize == 388

\* Use pool vaults as market vaults and dummy accounts for the other fields.
MarketFallbackKeepingVaults(pool) ==
    [pool EXCEPT !.MarketBids = SystemProgramID,
                 !.MarketAsks = SystemProgramID,
                 !.MarketEventQueue = SystemProgramID]

MarketFallback(pool) ==
    [pool EXCEPT !.MarketBaseVault = pool.BaseVault,
                 !.MarketQuoteVault = pool.QuoteVault,
                 !.MarketBids = SystemProgramID,
                 !.MarketAsks = SystemProgramID,
                 !.MarketEventQueue = SystemProgramID]

\* fetchMarketData: the pool it leaves and the error it returns.  answer is
\* what GetAccountInfo gives for the market, asked only for a market that is
\* not zero.
fetchMarketData(pool, answer) ==
    IF IsZero(pool.Market)
    THEN [err |-> NoError, pool |-> [MarketFallback(pool) EXCEPT !.MarketNonce = 0]]
    ELSE IF answer.status = "err"
    THEN [err |-> <<"failed to get market account">>, pool |-> pool]
    ELSE LET marketData == answer.data
         IN  IF Len(marketData) < MarketAccountSize
             THEN [err |-> NoError, pool |-> [MarketFallback(pool) EXCEPT !.MarketNonce = 0]]
             ELSE [err |-> NoError,
                   pool |-> [pool EXCEPT
                      !.MarketBaseVault  = PublicKeyFromBytes(Slice(marketData, 84, 116)),
                      !.MarketQuoteVault = PublicKeyFromBytes(Slice(marketData, 116, 148)),
                      !.MarketBids       = PublicKeyFromBytes(Slice(marketData, 316, 348)),
                      !.MarketAsks       = PublicKeyFromBytes(Slice(marketData, 348, 380)),
                      !.MarketEventQueue = PublicKeyFromBytes(Slice(marketData, 252, 284)),
                      !.MarketNonce      = At(marketData, 45)]]

\* A market account of len bytes filled with a pattern.
MarketBlob(len, k, c) == [n \in 1..len |-> PatternByte(k, c, n - 1)]

\* What GetAccountInfo answers for the market: an error, or an account with
\* its data.
MarketAnswers ==
    {[status |-> "err"]} \cup
    { [status |-> "ok", data |-> MarketBlob(len, k, c)] :
        len \in {0, 46, MarketAccountSize - 1, MarketAccountSize, MarketAccountSize + MaxExtra},
        k \in 0..MaxStride, c \in {0, 7} }

\* The pool as parsePoolAccount leaves it: vaults, market and market program
\* read from the account, the market fields still zero.
ParsedPools ==
    { [NewOnChainPool(Key(20 + 40 * v)) EXCEPT
          !.BaseVault = Key(24 + 40 * v), !.QuoteVault = Key(25 + 40 * v),
          !.Market = m, !.MarketProgram = mp] :
        v \in 0..MaxPoolVariant, m \in {Key(0), Key(10)}, mp \in {OPENBOOK_PROGRAM, Key(11)} }

MarketInit ==
    /\ mktArgs \in { [pool |-> pl, answer |-> a] : pl \in ParsedPools, a \in MarketAnswers }
    /\ mktPc = "fetch"
    /\ mktPool = NoResult
    /\ mktErr = <<>>

\* err = fetchMarketData(ctx, client, pool)
CallFetchMarketData ==
    /\ mktPc = "fetch"
    /\ LET r == fetchMarketData(mktArgs.pool, mktArgs.answer)
       IN  /\ mktPool' = r.pool
           /\ mktErr' = r.err
    /\ mktPc' = "handle"
    /\ UNCHANGED mktArgs

\* if err != nil { fallback values }; executeSwap goes on with the pool.
HandleMarketError ==
    /\ mktPc = "handle"
    /\ mktPool' = IF mktErr # NoError THEN MarketFallback(mktPool) ELSE mktPool
    /\ mktPc' = "proceed"
    /\ UNCHANGED <<mktArgs, mktErr>>

InitMarket ==
    /\ SwapIdle /\ ParseIdle /\ QuoteIdle /\ SlipIdle /\ SubmitIdle
    /\ IdleExceptMarket /\ MarketInit

NextMarket ==
    \/ CallFetchMarketData /\ UNCHANGED <<swapVars, parseVars, quoteVars, slipVars, submitVars, exceptMarket>>
    \/ HandleMarketError /\ UNCHANGED <<swapVars, parseVars, quoteVars, slipVars, submitVars, exceptMarket>>

SpecMarket == InitMarket /\ [][NextMarket]_vars

\* No market data can be used: the market is zero, the fetch failed or the
\* account is shorter than 388 bytes.
NoMarketData ==
    \/ IsZero(mktArgs.pool.Market)
    \/ mktArgs.answer.status = "err"
    \/ Len(mktArgs.answer.data) < 388

\* The 32 bytes of the market account from offset o on.
MarketBytesAt(o) == [n \in 1..KeyLen |-> mktArgs.answer.data[o + n]]

\* C26: with a zero market, a market account that cannot be fetched or one
\* shorter than 388 bytes the swap goes on, the market vaults of the pool are
\* its own vaults and bids, asks and event queue are the placeholder; with
\* 388 bytes or more the five fields are the bytes of the market account at
\* their offsets.  In both cases executeSwap always reaches the step after
\* the fetch.
C26_MarketFallbackOrVerbatim ==
    /\ mktPc = "handle" => (mktErr # NoError => mktArgs.answer.status = "err")
    /\ mktPc = "proceed" =>
        IF NoMarketData
        THEN /\ mktPool.MarketBaseVault = mktArgs.pool.BaseVault
             /\ mktPool.MarketQuoteVault = mktArgs.pool.QuoteVault
             /\ mktPool.MarketBids = SystemProgramID
             /\ mktPool.MarketAsks = SystemProgramID
             /\ mktPool.MarketEventQueue = SystemProgramID
        ELSE /\ mktPool.MarketBaseVault = MarketBytesAt(84)
             /\ mktPool.MarketQuoteVault = MarketBytesAt(116)
             /\ mktPool.MarketEventQueue = MarketBytesAt(252)
             /\ mktPool.MarketBids = MarketBytesAt(316)
             /\ mktPool.MarketAsks = MarketBytesAt(348)
    /\ mktPc \in {"handle", "proceed"} =>
          /\ mktPool.BaseVault = mktArgs.pool.BaseVault
          /\ mktPool.QuoteVault = mktArgs.pool.QuoteVault
          /\ mktPool.Market = mktArgs.pool.Market
    /\ mktPc = "fetch" => ENABLED CallFetchMarketData
    /\ mktPc = "handle" => ENABLED HandleMarketError

\* The fetch of a market that is not zero failed and executeSwap went on
\* with the fallback.
C26_Witness ==
    /\ mktPc = "proceed"
    /\ ~IsZero(mktArgs.pool.Market)
    /\ mktArgs.answer.status = "err"
    /\ mktErr # NoError
    /\ mktPool.MarketBaseVault = mktArgs.pool.BaseVault
    /\ mktPool.MarketBids = SystemProgramID



(***************************************************************************)
(* The order of the steps of one invocation                                *)
(***************************************************************************)
\* Every event of kind later has an event of kind earlier before it.
Precedes(earlier, later) ==
    \A k \in EventsOf(later) : \E n \in EventsOf(earlier) : n < k

\* The line typed is y or yes, in either case and with blanks around it.
IsYes(text) ==
    text \in { <<"y">>, <<"Y">>, <<"y", "e", "s">>, <<" ", "y", "e", "s", " ">> }

\* C27: the steps of a run come in the order quote, confirmation, slippage,
\* submission, report, each after the one before it succeeded; a
\* transaction is submitted only with the execute flag, after a quote, an
\* answer of y or yes and an accepted slippage; the report comes only after
\* a submission gave a transaction id; without the execute flag no wallet is
\* loaded and nothing is submitted.
C27_StepsInOrder ==
    /\ Precedes("quote", "confirmed")
    /\ Precedes("confirmed", "slippage")
    /\ Precedes("slippage", "submit")
    /\ Precedes("submit", "success")
    /\ Precedes("success", "report")
    /\ \A what \in {"quote", "confirmed", "slippage", "success", "report"} :
          Cardinality(EventsOf(what)) <= 1
    /\ \A n \in EventsOf("confirmed") : IsYes(events[n].text)
    /\ EventsOf("submit") # {} => flags.execute
    /\ \A n \in EventsOf("success") :
          \E k \in EventsOf("submit") :
              /\ k < n
              /\ \A j \in EventsOf("submit-failed") : j < k
    /\ flags # NoResult /\ ~flags.execute =>
          /\ EventsOf("wallet") = {}
          /\ EventsOf("submit") = {}
          /\ EventsOf("report") = {}
    /\ \A n \in EventsOf("wallet") : \A k \in EventsOf("quote") : n < k
    /\ EventsOf("quote") # {} /\ flags.execute =>
          \E n \in EventsOf("wallet") : events[n].loaded

\* A run with the execute flag went through all five steps, the answer
\* being " yes ".
C27_Witness ==
    /\ exitStatus = "done"
    /\ flags.execute
    /\ \E n \in EventsOf("confirmed") : events[n].text = <<" ", "y", "e", "s", " ">>
    /\ EventsOf("submit") # {}
    /\ EventsOf("report") # {}



(***************************************************************************)
(* SpecAgree: one pool, side and amount taken through the quote, the       *)
(* minimum-out of main and the function that builds the swap.              *)
(***************************************************************************)
\* outputDecimals of main (src/main.go lines 931-945)
MainOutputDecimals(pool, sd) ==
    IF sd = "buy"
    THEN IF IsBaseSol(pool) THEN pool.QuoteDecimals ELSE pool.BaseDecimals
    ELSE SOL_DECIMALS

\* amount * float64(k)
Times(amount, k) ==
    IF amount.kind = "num" THEN Num(amount.neg, amount.mant * k, amount.scale) ELSE amount

\* Source mint, destination mint and amountInRaw of executeSwap
\* (src/main.go lines 459-497)
executeSwapBuilds(pool, sd, amount, outOfRange) ==
    LET d == SwapDirection(pool, sd)
    IN  [sourceMint |-> d.sourceMint, destinationMint |-> d.destinationMint,
         amountInRaw |-> ToRaw(amount, d.inputDecimals, outOfRange)]

\* The same of ExecuteRaydiumSwap (src/raydium_swap.go lines 172-182), which
\* takes the base for the native mint, amountIn * 1e9 for a buy and
\* amountIn * float64(pool.QuoteDecimals) for a sell.
ExecuteRaydiumSwapBuilds(pool, sd, amount, outOfRange) ==
    IF sd = "buy"
    THEN [sourceMint |-> pool.BaseMint, destinationMint |-> pool.QuoteMint,
          amountInRaw |-> ToRaw(amount, SOL_DECIMALS, outOfRange)]
    ELSE [sourceMint |-> pool.QuoteMint, destinationMint |-> pool.BaseMint,
          amountInRaw |-> ToRaw(Times(amount, pool.QuoteDecimals), 0, outOfRange)]

SwapBuiltBy(builder, pool, sd, amount, outOfRange) ==
    IF builder = "executeSwap"
    THEN executeSwapBuilds(pool, sd, amount, outOfRange)
    ELSE ExecuteRaydiumSwapBuilds(pool, sd, amount, outOfRange)

Builders == {"executeSwap", "ExecuteRaydiumSwap"}

AgreeInit ==
    /\ agreeArgs \in { [call |-> a, builder |-> b] : a \in RouteArgsSamples, b \in Builders }
    /\ agreePc = "quote"
    /\ agreeQuote = NoResult
    /\ agreeMinOut = NoResult
    /\ agreeSwap = NoResult

\* quote, err := calculateQuoteOnChain(..)
AgreeQuoteStep ==
    /\ agreePc = "quote"
    /\ LET a == agreeArgs.call
           q == calculateQuote(a.pool, a.side, a.amount, a.outOfRange)
       IN  /\ agreeQuote' = q
           /\ agreePc' = IF q.status = "ok" THEN "min-out" ELSE "done"
    /\ UNCHANGED <<agreeArgs, agreeMinOut, agreeSwap>>

\* main computes outputDecimals for calculateMinAmountOut
AgreeMinOutStep ==
    /\ agreePc = "min-out"
    /\ agreeMinOut' = [outputDecimals |->
                          MainOutputDecimals(agreeArgs.call.pool, agreeArgs.call.side)]
    /\ agreePc' = "build"
    /\ UNCHANGED <<agreeArgs, agreeQuote, agreeSwap>>

\* the builder determines the mints and converts the amount
AgreeBuildStep ==
    /\ agreePc = "build"
    /\ LET a == agreeArgs.call
       IN  agreeSwap' = [status |-> "built"] @@
              SwapBuiltBy(agreeArgs.builder, a.pool, a.side, a.amount, a.outOfRange)
    /\ agreePc' = "done"
    /\ UNCHANGED <<agreeArgs, agreeQuote, agreeMinOut>>

InitAgree ==
    /\ SwapIdle /\ ParseIdle /\ QuoteIdle /\ SlipIdle /\ SubmitIdle
    /\ IdleExceptAgree /\ AgreeInit

NextAgree ==
    \/ AgreeQuoteStep /\ UNCHANGED <<swapVars, parseVars, quoteVars, slipVars, submitVars, exceptAgree>>
    \/ AgreeMinOutStep /\ UNCHANGED <<swapVars, parseVars, quoteVars, slipVars, submitVars, exceptAgree>>
    \/ AgreeBuildStep /\ UNCHANGED <<swapVars, parseVars, quoteVars, slipVars, submitVars, exceptAgree>>

SpecAgree == InitAgree /\ [][NextAgree]_vars

\* The mints whose reserves the quote used as reserveIn and as reserveOut.
QuoteReserveInMint ==
    IF agreeQuote.isBaseToQuote
    THEN agreeArgs.call.pool.BaseMint ELSE agreeArgs.call.pool.QuoteMint

QuoteReserveOutMint ==
    IF agreeQuote.isBaseToQuote
    THEN agreeArgs.call.pool.QuoteMint ELSE agreeArgs.call.pool.BaseMint

\* The swap built agrees with the quote in amount, mints and output decimals.
SwapAgrees ==
    /\ agreeSwap.amountInRaw = agreeQuote.amountIn
    /\ agreeSwap.sourceMint = QuoteReserveInMint
    /\ agreeSwap.destinationMint = QuoteReserveOutMint
    /\ agreeMinOut.outputDecimals = agreeQuote.outputDecimals

ExecuteSwapAgreesWithQuote ==
    agreeSwap # NoResult /\ agreeArgs.builder = "executeSwap" => SwapAgrees



(***************************************************************************)
(* The status of the report                                                *)
(***************************************************************************)
\* The transaction of the report was fetched with its metadata and did not
\* fail on-chain.
TransactionSucceeded ==
    /\ reportArgs.tx.kind = "meta"
    /\ reportArgs.tx.Meta.Err.nil

\* C29: a report carries the status "Success" only for a transaction that
\* was observed and did not fail on-chain; a transaction whose metadata
\* shows an execution error, or that was not observed, is not reported as
\* "Success".
C29_SuccessOnlyForSucceededTransaction ==
    reportPc = "returned" /\ report.Status = "Success" => TransactionSucceeded



(***************************************************************************)
(* The decimals of the two sides of the swap                               *)
(***************************************************************************)
\* The decimal counts of the mints whose reserves the quote used.
ReserveInDecimals ==
    IF agreeQuote.isBaseToQuote
    THEN agreeArgs.call.pool.BaseDecimals ELSE agreeArgs.call.pool.QuoteDecimals

ReserveOutDecimals ==
    IF agreeQuote.isBaseToQuote
    THEN agreeArgs.call.pool.QuoteDecimals ELSE agreeArgs.call.pool.BaseDecimals

\* C30: for every pool the program takes, also one without the native asset
\* on either side, the input amount is converted with the decimal count of
\* the mint whose reserve is reserveIn, and the output with the decimal count
\* of the mint whose reserve is reserveOut, in the quote and in the
\* minimum-out of main.
C30_DecimalsOfTheReservesUsed ==
    /\ (agreeQuote # NoResult /\ agreeQuote.status = "ok") =>
          /\ agreeQuote.inputDecimals = ReserveInDecimals
          /\ agreeQuote.outputDecimals = ReserveOutDecimals
    /\ agreeMinOut # NoResult => agreeMinOut.outputDecimals = ReserveOutDecimals

\* The same for the pools with the native asset on one side.
DecimalsOfTheReservesUsedWithNative ==
    (agreeArgs.call.pool.BaseMint \in {WSOL_MINT, SOL_MINT}
        \/ agreeArgs.call.pool.QuoteMint \in {WSOL_MINT, SOL_MINT})
    => C30_DecimalsOfTheReservesUsed


====
